---- MODULE Spec2Model ----
(***************************************************************************)
(* Model of DuplicationService (backend/src/services/duplication.service.ts)*)
(* Text is a sequence of one-character strings, so that the regular        *)
(* expressions of the source are modelled by what they do to the text.     *)
(***************************************************************************)
EXTENDS Integers, Sequences, FiniteSets, TLC

VARIABLES
  files,       \* the argument of analyzeDuplication
  pc,          \* where analyzeDuplication stands
  blocks,      \* the result of extractCodeBlocks
  pairs,       \* `duplicates` of findDuplicates after the two passes
  merged,      \* the result of mergeOverlappingDuplicates
  clustered,   \* the result of clusterDuplicatesByPattern
  findings,    \* the result of findDuplicates
  threw,       \* whether a step inside the try block threw
  report,      \* the value analyzeDuplication returns
  normIn,      \* two raw texts given to normalizeCode
  normOut,     \* their normalized forms
  review,      \* where reviewPullRequest stands, and its request to the LLM
  calls,       \* the invocations of analyzeDuplication on the singleton so far
  parse,       \* a patch given to extractAddedLines, and what it returned
  uf           \* the union-find of clusterDuplicatesByPattern, run step by step

vars == <<files, pc, blocks, pairs, merged, clustered, findings, threw, report,
          normIn, normOut, review, calls, parse, uf>>

(***************************************************************************)
(* Characters and strings                                                  *)
(***************************************************************************)

DoubleQuote == "\""

SingleQuote == "'"

\* the grave accent, which a TLA+ string cannot hold, as an atom of its own
BackQuote == "backquote"

\* the \s class of the regular expressions, within the model's alphabet
IsSpace(c) == c \in {" ", "\t", "\n", "\r"}

\* the line terminators: "." does not match them and "$" (flag m) stops before them
IsLineTerminator(c) == c \in {"\n", "\r"}

\* the \w class
IsWordChar(c) ==
  c \in {"a","b","c","d","e","f","g","h","i","j","k","l","m","n","o","p","q",
         "r","s","t","u","v","w","x","y","z",
         "A","B","C","D","E","F","G","H","I","J","K","L","M","N","O","P","Q",
         "R","S","T","U","V","W","X","Y","Z",
         "0","1","2","3","4","5","6","7","8","9","_"}

UpperLetters ==
  <<"A","B","C","D","E","F","G","H","I","J","K","L","M","N","O","P","Q",
    "R","S","T","U","V","W","X","Y","Z">>

LowerLetters ==
  <<"a","b","c","d","e","f","g","h","i","j","k","l","m","n","o","p","q",
    "r","s","t","u","v","w","x","y","z">>

LowerOf ==
  [c \in {UpperLetters[i] : i \in 1..26} |->
     LowerLetters[CHOOSE i \in 1..26 : UpperLetters[i] = c]]

LowerChar(c) == IF c \in DOMAIN LowerOf THEN LowerOf[c] ELSE c

toLowerCase(s) == [i \in 1..Len(s) |-> LowerChar(s[i])]

\* s.startsWith(p)
startsWith(s, p) == Len(s) >= Len(p) /\ SubSeq(s, 1, Len(p)) = p

\* s.endsWith(p)
endsWith(s, p) == Len(s) >= Len(p) /\ SubSeq(s, Len(s) - Len(p) + 1, Len(s)) = p

\* p occurs in s starting at index i
matchAt(s, i, p) == i + Len(p) - 1 <= Len(s) /\ SubSeq(s, i, i + Len(p) - 1) = p

\* s contains p (an unanchored literal pattern)
includes(s, p) == \E i \in 1..(Len(s) + 1) : matchAt(s, i, p)

Min(S) == CHOOSE x \in S : \A y \in S : x <= y

RECURSIVE skipSpaces(_, _)
\* the least index from i on whose character is no white space, Len(s) + 1 if none
skipSpaces(s, i) ==
  IF i > Len(s) \/ ~IsSpace(s[i]) THEN i ELSE skipSpaces(s, i + 1)

RECURSIVE nextSpace(_, _)
\* the least index from i on whose character is white space, Len(s) + 1 if none
nextSpace(s, i) ==
  IF i > Len(s) \/ IsSpace(s[i]) THEN i ELSE nextSpace(s, i + 1)

RECURSIVE nextChar(_, _, _)
\* the least index from i on whose character is c, Len(s) + 1 if none
nextChar(s, c, i) ==
  IF i > Len(s) \/ s[i] = c THEN i ELSE nextChar(s, c, i + 1)

RECURSIVE lastNonSpace(_, _)
\* the greatest index up to i whose character is no white space, 0 if none
lastNonSpace(s, i) ==
  IF i < 1 \/ ~IsSpace(s[i]) THEN i ELSE lastNonSpace(s, i - 1)

Max(S) == CHOOSE x \in S : \A y \in S : x >= y

RECURSIVE joinWith(_, _)
\* parts.join(sep)
joinWith(parts, sep) ==
  IF Len(parts) = 0 THEN <<>>
  ELSE IF Len(parts) = 1 THEN parts[1]
  ELSE parts[1] \o sep \o joinWith(Tail(parts), sep)

RECURSIVE splitOn(_, _, _)
\* s.split(c) from index i on, c a single character
splitOn(s, c, i) ==
  LET j == nextChar(s, c, i)
  IN IF j > Len(s) THEN <<SubSeq(s, i, Len(s))>>
     ELSE <<SubSeq(s, i, j - 1)>> \o splitOn(s, c, j + 1)

RECURSIVE splitSpaces(_, _)
\* s.split(/\s+/) from index i on: every maximal run of white space separates,
\* and a leading or trailing run leaves an empty token
splitSpaces(s, i) ==
  LET a == nextSpace(s, i)
  IN IF a > Len(s) THEN <<SubSeq(s, i, Len(s))>>
     ELSE <<SubSeq(s, i, a - 1)>> \o splitSpaces(s, skipSpaces(s, a))

(***************************************************************************)
(* normalizeCode                                                           *)
(***************************************************************************)

RECURSIVE lineEnd(_, _)
\* the least index from i on that holds a line terminator, Len(s) + 1 if none
lineEnd(s, i) ==
  IF i > Len(s) \/ IsLineTerminator(s[i]) THEN i ELSE lineEnd(s, i + 1)

RECURSIVE commentEnd(_, _)
\* the least index from i on at which "*/" starts, 0 if none
commentEnd(s, i) ==
  IF i >= Len(s) THEN 0
  ELSE IF s[i] = "*" /\ s[i + 1] = "/" THEN i
  ELSE commentEnd(s, i + 1)

RECURSIVE stripLineComments(_, _)
\* .replace(/\/\/.*$/gm, ''): from "//" up to, not including, the line terminator
stripLineComments(s, i) ==
  IF i > Len(s) THEN <<>>
  ELSE IF s[i] = "/" /\ i < Len(s) /\ s[i + 1] = "/"
    THEN stripLineComments(s, lineEnd(s, i))
    ELSE <<s[i]>> \o stripLineComments(s, i + 1)

RECURSIVE stripBlockComments(_, _)
\* .replace(/\/\*[\s\S]*?\*\//g, ''): from "/*" to the first "*/" after it; an
\* unterminated "/*" matches nothing and stays
stripBlockComments(s, i) ==
  IF i > Len(s) THEN <<>>
  ELSE IF s[i] = "/" /\ i < Len(s) /\ s[i + 1] = "*"
    THEN LET e == commentEnd(s, i + 2)
         IN IF e = 0 THEN <<s[i]>> \o stripBlockComments(s, i + 1)
            ELSE stripBlockComments(s, e + 2)
    ELSE <<s[i]>> \o stripBlockComments(s, i + 1)

RECURSIVE literalEnd(_, _, _)
\* the index of the quote closing a literal whose body starts at j, or 0 when
\* ([^q\\]|\\.)* followed by q does not match: a backslash must be followed by
\* a character that "." matches
literalEnd(s, q, j) ==
  IF j > Len(s) THEN 0
  ELSE IF s[j] = q THEN j
  ELSE IF s[j] = "\\"
    THEN IF j + 1 <= Len(s) /\ ~IsLineTerminator(s[j + 1])
           THEN literalEnd(s, q, j + 2)
           ELSE 0
  ELSE literalEnd(s, q, j + 1)

RECURSIVE elideLiterals(_, _, _)
\* .replace(/q([^q\\]|\\.)*q/g, 'qq') for the quote character q
elideLiterals(s, q, i) ==
  IF i > Len(s) THEN <<>>
  ELSE IF s[i] = q /\ literalEnd(s, q, i + 1) # 0
    THEN <<q, q>> \o elideLiterals(s, q, literalEnd(s, q, i + 1) + 1)
    ELSE <<s[i]>> \o elideLiterals(s, q, i + 1)

RECURSIVE collapseSpaces(_, _)
\* .replace(/\s+/g, ' ')
collapseSpaces(s, i) ==
  IF i > Len(s) THEN <<>>
  ELSE IF IsSpace(s[i])
    THEN <<" ">> \o collapseSpaces(s, skipSpaces(s, i))
    ELSE <<s[i]>> \o collapseSpaces(s, i + 1)

\* .trim()
trim(s) == SubSeq(s, skipSpaces(s, 1), lastNonSpace(s, Len(s)))

normalizeCode(code) ==
  toLowerCase(trim(collapseSpaces(
    elideLiterals(elideLiterals(elideLiterals(
      stripBlockComments(stripLineComments(code, 1), 1),
      DoubleQuote, 1), SingleQuote, 1), BackQuote, 1), 1)))

\* crypto md5 hex digest: a fixed function of the text, taken to be free of collisions
hashCode(code) == <<"md5", code>>

(***************************************************************************)
(* extractAddedLines                                                       *)
(***************************************************************************)

IsDigit(c) == c \in {"0","1","2","3","4","5","6","7","8","9"}

DigitValue(c) ==
  CASE c = "0" -> 0 [] c = "1" -> 1 [] c = "2" -> 2 [] c = "3" -> 3 [] c = "4" -> 4
    [] c = "5" -> 5 [] c = "6" -> 6 [] c = "7" -> 7 [] c = "8" -> 8 [] c = "9" -> 9

RECURSIVE parseInt(_, _, _)
\* parseInt(match[1], 10): the value of the digits of s from index i on, acc so far
parseInt(s, i, acc) ==
  IF i > Len(s) \/ ~IsDigit(s[i]) THEN acc
  ELSE parseInt(s, i + 1, acc * 10 + DigitValue(s[i]))

\* line.match(/\+(\d+)/): the index of the first "+" that a digit follows, or 0
plusDigits(line) ==
  LET M == {i \in 1..(Len(line) - 1) : line[i] = "+" /\ IsDigit(line[i + 1])}
  IN IF M = {} THEN 0 ELSE Min(M)

\* one iteration of the loop over patchLines: the cursor and the lines afterwards
parseLine(line, currentLine, lines) ==
  IF startsWith(line, <<"@", "@">>)
    THEN [currentLine |-> IF plusDigits(line) # 0
                            THEN parseInt(line, plusDigits(line) + 1, 0)
                            ELSE currentLine,
          lines |-> lines]
  ELSE IF startsWith(line, <<"+">>) /\ ~startsWith(line, <<"+", "+", "+">>)
    THEN [currentLine |-> currentLine + 1,
          lines |-> Append(lines, [lineNumber |-> currentLine,
                                   content |-> SubSeq(line, 2, Len(line))])]
  ELSE IF ~startsWith(line, <<"-">>)
    THEN [currentLine |-> currentLine + 1, lines |-> lines]
  ELSE [currentLine |-> currentLine, lines |-> lines]

RECURSIVE parsePatchLines(_, _, _, _)
\* the loop over patchLines from index k on, with the cursor and the lines so far
parsePatchLines(patchLines, k, currentLine, lines) ==
  IF k > Len(patchLines) THEN lines
  ELSE LET after == parseLine(patchLines[k], currentLine, lines)
       IN parsePatchLines(patchLines, k + 1, after.currentLine, after.lines)

extractAddedLines(patch) == parsePatchLines(splitOn(patch, "\n", 1), 1, 0, <<>>)

(***************************************************************************)
(* isTrivalBlock, shouldSkipFile                                           *)
(***************************************************************************)

RECURSIVE countClassName(_, _)
\* (normalizedCode.match(/classname|class=/gi) || []).length from index i on,
\* s being the text in lower case (flag i)
countClassName(s, i) ==
  IF i > Len(s) THEN 0
  ELSE IF matchAt(s, i, <<"c","l","a","s","s","n","a","m","e">>)
    THEN 1 + countClassName(s, i + 9)
  ELSE IF matchAt(s, i, <<"c","l","a","s","s","=">>)
    THEN 1 + countClassName(s, i + 6)
  ELSE countClassName(s, i + 1)

RECURSIVE skipWord(_, _)
\* the least index from i on whose character is no word character, Len(s) + 1 if none
skipWord(s, i) ==
  IF i > Len(s) \/ ~IsWordChar(s[i]) THEN i ELSE skipWord(s, i + 1)

\* /^const\s+\w+\s*=\s*require/
matchesConstRequire(s) ==
  /\ startsWith(s, <<"c","o","n","s","t">>)
  /\ LET a == skipSpaces(s, 6)
         b == skipWord(s, a)
         c == skipSpaces(s, b)
     IN /\ a > 6
        /\ b > a
        /\ matchAt(s, c, <<"=">>)
        /\ matchAt(s, skipSpaces(s, c + 1), <<"r","e","q","u","i","r","e">>)

\* /^\s*X\s*$/ for a single character X
isOnly(s, x) == trim(s) = <<x>>

MIN_BLOCK_SIZE == 10

isTrivalBlock(normalizedCode) ==
  IF Len(normalizedCode) < 30 THEN TRUE
  ELSE IF countClassName(toLowerCase(normalizedCode), 1) > 2 /\ Len(normalizedCode) < 100 THEN TRUE
  ELSE \/ \E c \in {" ", "\t", "\n", "\r"} :
            startsWith(normalizedCode, <<"i","m","p","o","r","t">> \o <<c>>)
       \/ \E c \in {" ", "\t", "\n", "\r"} :
            startsWith(normalizedCode, <<"e","x","p","o","r","t">> \o <<c>>)
       \/ matchesConstRequire(normalizedCode)
       \/ isOnly(normalizedCode, "}")
       \/ isOnly(normalizedCode, "{")
       \/ isOnly(normalizedCode, ")")
       \/ isOnly(normalizedCode, "(")

shouldSkipFile(filename) ==
  \/ endsWith(filename, <<".","j","s","o","n">>)
  \/ endsWith(filename, <<".","m","d">>)
  \/ endsWith(filename, <<".","t","x","t">>)
  \/ endsWith(filename, <<".","y","a","m","l">>)
  \/ endsWith(filename, <<".","y","m","l">>)
  \/ endsWith(filename, <<".","l","o","c","k">>)
  \/ endsWith(filename, <<"p","a","c","k","a","g","e","-","l","o","c","k",".","j","s","o","n">>)
  \/ endsWith(filename, <<"y","a","r","n",".","l","o","c","k">>)
  \/ endsWith(filename, <<".","m","i","n",".","j","s">>)
  \/ includes(filename, <<".","t","e","s","t",".">>)
  \/ includes(filename, <<".","s","p","e","c",".">>)
  \/ includes(filename, <<"/","_","_","t","e","s","t","s","_","_","/">>)
  \/ includes(filename, <<"/","n","o","d","e","_","m","o","d","u","l","e","s","/">>)
  \/ includes(filename, <<"/","d","i","s","t","/">>)
  \/ includes(filename, <<"/","b","u","i","l","d","/">>)

(***************************************************************************)
(* extractCodeBlocks                                                       *)
(***************************************************************************)

\* the block of the window of MIN_BLOCK_SIZE lines that starts at offset i (from 0)
windowBlock(file, lines, i) ==
  LET blockLines == SubSeq(lines, i + 1, i + MIN_BLOCK_SIZE)
      code == joinWith([k \in 1..Len(blockLines) |-> blockLines[k].content], <<"\n">>)
      normalizedCode == normalizeCode(code)
  IN [file |-> file.filename,
      startLine |-> blockLines[1].lineNumber,
      endLine |-> blockLines[Len(blockLines)].lineNumber,
      code |-> code,
      normalizedCode |-> normalizedCode,
      hash |-> hashCode(normalizedCode)]

RECURSIVE windowBlocks(_, _, _)
\* the inner loop of extractCodeBlocks from offset i on
windowBlocks(file, lines, i) ==
  IF i > Len(lines) - MIN_BLOCK_SIZE THEN <<>>
  ELSE LET b == windowBlock(file, lines, i)
       IN (IF isTrivalBlock(b.normalizedCode) THEN <<>> ELSE <<b>>)
            \o windowBlocks(file, lines, i + 1)

\* the body of the outer loop of extractCodeBlocks for one file
fileBlocks(file) ==
  IF shouldSkipFile(file.filename) THEN <<>>
  ELSE IF file.patch = <<>> THEN <<>>
  ELSE LET lines == extractAddedLines(file.patch)
       IN IF Len(lines) < MIN_BLOCK_SIZE THEN <<>> ELSE windowBlocks(file, lines, 0)

RECURSIVE extractCodeBlocks(_)
extractCodeBlocks(list) ==
  IF Len(list) = 0 THEN <<>>
  ELSE fileBlocks(list[1]) \o extractCodeBlocks(Tail(list))

(***************************************************************************)
(* calculateSimilarity, createDuplicateKey                                 *)
(***************************************************************************)

RECURSIVE GCD(_, _)
GCD(a, b) == IF b = 0 THEN a ELSE GCD(b, a % b)

\* the number n / d, d > 0, in lowest terms
Ratio(n, d) == [num |-> n \div GCD(n, d), den |-> d \div GCD(n, d)]

RatioGE(x, y) == x.num * y.den >= y.num * x.den

RatioLT(x, y) == x.num * y.den < y.num * x.den

RatioMax(x, y) == IF RatioGE(x, y) THEN x ELSE y

One == Ratio(1, 1)

SIMILARITY_THRESHOLD == Ratio(85, 100)

CLUSTER_SIMILARITY_THRESHOLD == Ratio(9, 10)

Range(seq) == {seq[i] : i \in 1..Len(seq)}

calculateSimilarity(code1, code2) ==
  LET tokens1 == Range(splitSpaces(code1, 1))
      tokens2 == Range(splitSpaces(code2, 1))
      intersection == tokens1 \cap tokens2
      union == tokens1 \cup tokens2
  IN IF Cardinality(union) > 0
       THEN Ratio(Cardinality(intersection), Cardinality(union))
       ELSE Ratio(0, 1)

\* [key1, key2].sort().join('|') with key = `${file}:${startLine}-${endLine}`:
\* the unordered pair of the two endpoints
createDuplicateKey(block1, block2) ==
  {<<block1.file, block1.startLine, block1.endLine>>,
   <<block2.file, block2.startLine, block2.endLine>>}

(***************************************************************************)
(* findDuplicates: the two passes                                          *)
(***************************************************************************)

RECURSIVE indexPairs(_, _, _)
\* <<idx[a], idx[b]>> for a < b in the order of the nested loops, from (a, b) on
indexPairs(idx, a, b) ==
  IF a >= Len(idx) THEN <<>>
  ELSE IF b > Len(idx) THEN indexPairs(idx, a + 1, a + 2)
  ELSE <<(<<idx[a], idx[b]>>)>> \o indexPairs(idx, a, b + 1)

\* the keys of hashMap in insertion order
RECURSIVE hashKeys(_, _)
hashKeys(bs, k) ==
  IF k > Len(bs) THEN <<>>
  ELSE (IF \E m \in 1..(k - 1) : bs[m].hash = bs[k].hash THEN <<>> ELSE <<bs[k].hash>>)
         \o hashKeys(bs, k + 1)

\* hashMap.get(h): the indices of the blocks of hash h, in order
bucket(bs, h) ==
  LET RECURSIVE pick(_)
      pick(k) == IF k > Len(bs) THEN <<>>
                 ELSE (IF bs[k].hash = h THEN <<k>> ELSE <<>>) \o pick(k + 1)
  IN pick(1)

RECURSIVE exactCandidates(_, _, _)
\* the index pairs pass 1 visits, bucket after bucket
exactCandidates(bs, keys, k) ==
  IF k > Len(keys) THEN <<>>
  ELSE indexPairs(bucket(bs, keys[k]), 1, 2) \o exactCandidates(bs, keys, k + 1)

\* the pushed record with the lines of the first block in both ranges
duplicateOf_sameLines(b1, b2, similarity) ==
  [file1 |-> b1.file,
   file2 |-> b2.file,
   lines1 |-> [start |-> b1.startLine, end |-> b1.endLine],
   lines2 |-> [start |-> b1.startLine, end |-> b1.endLine],
   code |-> b1.code,
   similarity |-> similarity]

\* the pushed record with the block of the inner loop first
duplicateOf_swapped(b1, b2, similarity) ==
  [file1 |-> b2.file,
   file2 |-> b1.file,
   lines1 |-> [start |-> b2.startLine, end |-> b2.endLine],
   lines2 |-> [start |-> b1.startLine, end |-> b1.endLine],
   code |-> b2.code,
   similarity |-> similarity]

\* duplicates.push({ file1: blocks[i].file, file2: blocks[j].file, ... })
duplicateOf(b1, b2, similarity) ==
  [file1 |-> b1.file,
   file2 |-> b2.file,
   lines1 |-> [start |-> b1.startLine, end |-> b1.endLine],
   lines2 |-> [start |-> b2.startLine, end |-> b2.endLine],
   code |-> b1.code,
   similarity |-> similarity]

\* whether pass 2 takes a pair of this similarity
isFuzzyMatch(similarity) ==
  RatioGE(similarity, SIMILARITY_THRESHOLD) /\ RatioLT(similarity, One)

\* the test that sends both passes to `continue`: a literal that never holds
\* would pair the blocks of one file
sameFile_never(b1, b2) == FALSE

\* matchingBlocks[i].file === matchingBlocks[j].file, blocks[i].file === blocks[j].file
sameFile(b1, b2) == b1.file = b2.file

RECURSIVE pass1(_, _, _, _)
\* pass 1 over the candidates from k on; st = [duplicates, seen]
pass1(bs, cand, k, st) ==
  IF k > Len(cand) THEN st
  ELSE LET b1 == bs[cand[k][1]]
           b2 == bs[cand[k][2]]
           key == createDuplicateKey(b1, b2)
       IN IF sameFile(b1, b2) THEN pass1(bs, cand, k + 1, st)
          ELSE IF key \notin st.seen
            THEN pass1(bs, cand, k + 1,
                   [duplicates |-> Append(st.duplicates, duplicateOf(b1, b2, One)),
                    seen |-> st.seen \cup {key}])
          ELSE pass1(bs, cand, k + 1, st)

RECURSIVE pass2Inner(_, _, _, _)
\* the inner loop of pass 2 for blocks[i], from j on; st = [duplicates, seen]
pass2Inner(bs, i, j, st) ==
  IF j > Len(bs) THEN st
  ELSE LET b1 == bs[i]
           b2 == bs[j]
           key == createDuplicateKey(b1, b2)
           similarity == calculateSimilarity(b1.normalizedCode, b2.normalizedCode)
       IN IF sameFile(b1, b2) THEN pass2Inner(bs, i, j + 1, st)
          ELSE IF isFuzzyMatch(similarity) /\ key \notin st.seen
            THEN pass2Inner(bs, i, j + 1,
                   [duplicates |-> Append(st.duplicates, duplicateOf(b1, b2, similarity)),
                    seen |-> st.seen \cup {key}])
          ELSE pass2Inner(bs, i, j + 1, st)

RECURSIVE pass2(_, _, _)
\* the outer loop of pass 2, from i on; the test holds always and has the row of
\* blocks[i] worked off before the row of blocks[i + 1] begins
pass2(bs, i, st) ==
  IF i > Len(bs) THEN st
  ELSE LET after == pass2Inner(bs, i, i + 1, st)
       IN IF Len(after.duplicates) >= 0 THEN pass2(bs, i + 1, after) ELSE st

\* the list `duplicates` of findDuplicates before it is merged
findPairs(bs) ==
  LET st1 == pass1(bs, exactCandidates(bs, hashKeys(bs, 1), 1), 1,
                   [duplicates |-> <<>>, seen |-> {}])
  IN pass2(bs, 1, st1).duplicates

(***************************************************************************)
(* mergeOverlappingDuplicates                                              *)
(***************************************************************************)

\* [dup.file1, dup.file2].sort().join('|'): the unordered pair of file names
groupKey(dup) == {dup.file1, dup.file2}

RECURSIVE groupKeys(_, _)
\* the keys of `groups` in insertion order
groupKeys(dups, k) ==
  IF k > Len(dups) THEN <<>>
  ELSE (IF \E m \in 1..(k - 1) : groupKey(dups[m]) = groupKey(dups[k])
          THEN <<>> ELSE <<groupKey(dups[k])>>)
         \o groupKeys(dups, k + 1)

RECURSIVE groupOf(_, _, _)
\* groups.get(key), in insertion order
groupOf(dups, key, k) ==
  IF k > Len(dups) THEN <<>>
  ELSE (IF groupKey(dups[k]) = key THEN <<dups[k]>> ELSE <<>>) \o groupOf(dups, key, k + 1)

RECURSIVE sortByStart1(_)
\* groupDuplicates.sort((a, b) => a.lines1.start - b.lines1.start), a stable sort
sortByStart1(list) ==
  IF Len(list) <= 1 THEN list
  ELSE LET rest == sortByStart1(SubSeq(list, 1, Len(list) - 1))
           x == list[Len(list)]
           after == {i \in 1..Len(rest) : rest[i].lines1.start <= x.lines1.start}
           n == IF after = {} THEN 0 ELSE Max(after)
       IN SubSeq(rest, 1, n) \o <<x>> \o SubSeq(rest, n + 1, Len(rest))

overlap1(current, next) == next.lines1.start <= current.lines1.end + 2

overlap2(current, next) == next.lines2.start <= current.lines2.end + 2

minOf(a, b) == IF a <= b THEN a ELSE b

maxOf(a, b) == IF a >= b THEN a ELSE b

\* the merge branch with the similarity of `next` in place of the greater one
mergeInto_lastSimilarity(current, next) ==
  [current EXCEPT
     !.lines1 = [start |-> minOf(current.lines1.start, next.lines1.start),
                 end |-> maxOf(current.lines1.end, next.lines1.end)],
     !.lines2 = [start |-> minOf(current.lines2.start, next.lines2.start),
                 end |-> maxOf(current.lines2.end, next.lines2.end)],
     !.similarity = next.similarity]

\* { ...current, lines1, lines2, similarity } of the merge branch
mergeInto(current, next) ==
  [current EXCEPT
     !.lines1 = [start |-> minOf(current.lines1.start, next.lines1.start),
                 end |-> maxOf(current.lines1.end, next.lines1.end)],
     !.lines2 = [start |-> minOf(current.lines2.start, next.lines2.start),
                 end |-> maxOf(current.lines2.end, next.lines2.end)],
     !.similarity = RatioMax(current.similarity, next.similarity)]

RECURSIVE mergeWalk(_, _, _)
\* the loop over sorted[i], i from k on, with `current`; what it pushes to `merged`
mergeWalk(sorted, k, current) ==
  IF k > Len(sorted) THEN <<current>>
  ELSE LET next == sorted[k]
       IN IF overlap1(current, next) /\ overlap2(current, next)
            THEN mergeWalk(sorted, k + 1, mergeInto(current, next))
            ELSE <<current>> \o mergeWalk(sorted, k + 1, next)

RECURSIVE mergeGroups(_, _, _)
mergeGroups(dups, keys, k) ==
  IF k > Len(keys) THEN <<>>
  ELSE LET sorted == sortByStart1(groupOf(dups, keys[k], 1))
       IN mergeWalk(sorted, 2, sorted[1]) \o mergeGroups(dups, keys, k + 1)

mergeOverlappingDuplicates(duplicates) ==
  IF Len(duplicates) = 0 THEN <<>>
  ELSE mergeGroups(duplicates, groupKeys(duplicates, 1), 1)

(***************************************************************************)
(* clusterDuplicatesByPattern (indices run from 1 here, from 0 in the code) *)
(***************************************************************************)

RECURSIVE find(_, _)
\* find(x) with its path compression: the root and the parent array afterwards
find(parent, x) ==
  IF parent[x] # x
    THEN LET r == find(parent, parent[x])
         IN [parent |-> [r.parent EXCEPT ![x] = r.root], root |-> r.root]
    ELSE [parent |-> parent, root |-> x]

\* a union that links nothing
union_noLink(parent, x, y) == find(find(parent, x).parent, y).parent

\* union(x, y): the parent array afterwards
union(parent, x, y) ==
  LET fx == find(parent, x)
      fy == find(fx.parent, y)
  IN IF fx.root # fy.root
       THEN [fy.parent EXCEPT ![fx.root] = fy.root]
       ELSE fy.parent

RECURSIVE unionLoop(_, _, _, _)
\* the nested loops over i < j from the k-th index pair on
unionLoop(dups, cand, k, parent) ==
  IF k > Len(cand) THEN parent
  ELSE LET i == cand[k][1]
           j == cand[k][2]
           similarity == calculateSimilarity(dups[i].code, dups[j].code)
       IN unionLoop(dups, cand, k + 1,
            IF RatioGE(similarity, CLUSTER_SIMILARITY_THRESHOLD)
              THEN union(parent, i, j)
              ELSE parent)

\* the parent array after the union loop
clusterParents(dups) ==
  unionLoop(dups, indexPairs([k \in 1..Len(dups) |-> k], 1, 2), 1,
            [k \in 1..Len(dups) |-> k])

RECURSIVE rootsOf(_, _, _)
\* find(i) for i from k on, each find compressing the array for the next
rootsOf(parent, k, n) ==
  IF k > n THEN <<>>
  ELSE LET f == find(parent, k)
       IN <<f.root>> \o rootsOf(f.parent, k + 1, n)

RECURSIVE firstSeen(_, _)
\* the distinct elements of a list in the order of their first occurrence
\* (the keys of a Map in insertion order)
firstSeen(list, k) ==
  IF k > Len(list) THEN <<>>
  ELSE (IF \E m \in 1..(k - 1) : list[m] = list[k] THEN <<>> ELSE <<list[k]>>)
         \o firstSeen(list, k + 1)

RECURSIVE membersOf(_, _, _, _)
\* clusterMap.get(root): the duplicates of that root, in index order
membersOf(dups, roots, root, k) ==
  IF k > Len(dups) THEN <<>>
  ELSE (IF roots[k] = root THEN <<dups[k]>> ELSE <<>>) \o membersOf(dups, roots, root, k + 1)

\* Array.from(clusterMap.values()) for the roots the loop over find(i) met
clustersFrom(dups, roots) ==
  LET keys == firstSeen(roots, 1)
  IN [c \in 1..Len(keys) |-> membersOf(dups, roots, keys[c], 1)]

\* Array.from(clusterMap.values())
clustersOf(dups) == clustersFrom(dups, rootsOf(clusterParents(dups), 1, Len(dups)))

RECURSIVE locations(_, _)
\* what the loop over the cluster appends to fileLocations, in order
locations(cluster, k) ==
  IF k > Len(cluster) THEN <<>>
  ELSE <<[file |-> cluster[k].file1, lines |-> cluster[k].lines1],
         [file |-> cluster[k].file2, lines |-> cluster[k].lines2]>>
         \o locations(cluster, k + 1)

RECURSIVE rangesOf(_, _, _)
\* fileLocations.get(file)
rangesOf(locs, file, k) ==
  IF k > Len(locs) THEN <<>>
  ELSE (IF locs[k].file = file THEN <<locs[k].lines>> ELSE <<>>) \o rangesOf(locs, file, k + 1)

RECURSIVE sortByStart(_)
\* ranges.sort((a, b) => a.start - b.start), a stable sort
sortByStart(list) ==
  IF Len(list) <= 1 THEN list
  ELSE LET rest == sortByStart(SubSeq(list, 1, Len(list) - 1))
           x == list[Len(list)]
           after == {i \in 1..Len(rest) : rest[i].start <= x.start}
           n == IF after = {} THEN 0 ELSE Max(after)
       IN SubSeq(rest, 1, n) \o <<x>> \o SubSeq(rest, n + 1, Len(rest))

\* the loop pushing every range as it is, merging none
rangeWalk_unmerged(sortedRanges, k, current) ==
  <<current>> \o SubSeq(sortedRanges, k, Len(sortedRanges))

RECURSIVE rangeWalk_keepsCurrent(_, _, _)
\* the loop that leaves `current` as it is when `next` is near it
rangeWalk_keepsCurrent(sortedRanges, k, current) ==
  IF k > Len(sortedRanges) THEN <<current>>
  ELSE LET next == sortedRanges[k]
       IN IF next.start <= current.end + 2
            THEN rangeWalk_keepsCurrent(sortedRanges, k + 1, current)
            ELSE <<current>> \o rangeWalk_keepsCurrent(sortedRanges, k + 1, next)

RECURSIVE rangeWalk(_, _, _)
\* the loop over sortedRanges[i], i from k on; what it pushes to mergedRanges
rangeWalk(sortedRanges, k, current) ==
  IF k > Len(sortedRanges) THEN <<current>>
  ELSE LET next == sortedRanges[k]
       IN IF next.start <= current.end + 2
            THEN rangeWalk(sortedRanges, k + 1,
                   [start |-> minOf(current.start, next.start),
                    end |-> maxOf(current.end, next.end)])
            ELSE <<current>> \o rangeWalk(sortedRanges, k + 1, next)

RECURSIVE allFilesOf(_, _, _)
\* the entries of allFiles for the files of fileLocations from the k-th on
allFilesOf(locs, fileNames, k) ==
  IF k > Len(fileNames) THEN <<>>
  ELSE LET sortedRanges == sortByStart(rangesOf(locs, fileNames[k], 1))
           mergedRanges == rangeWalk(sortedRanges, 2, sortedRanges[1])
       IN [r \in 1..Len(mergedRanges) |-> [file |-> fileNames[k], lines |-> mergedRanges[r]]]
            \o allFilesOf(locs, fileNames, k + 1)

\* the first record of the cluster whatever the similarities
representativeOf_first(cluster, k, best) == best

RECURSIVE representativeOf(_, _, _)
\* cluster.reduce((best, current) => current.similarity > best.similarity ? current : best)
representativeOf(cluster, k, best) ==
  IF k > Len(cluster) THEN best
  ELSE representativeOf(cluster, k + 1,
         IF RatioLT(best.similarity, cluster[k].similarity) THEN cluster[k] ELSE best)

\* the finding of a cluster with cluster.length in place of fileLocations.size
clusterFinding_pairCount(cluster) ==
  IF Len(cluster) = 1 THEN cluster[1]
  ELSE LET locs == locations(cluster, 1)
           fileNames == firstSeen([k \in 1..Len(locs) |-> locs[k].file], 1)
           representative == representativeOf(cluster, 2, cluster[1])
       IN [file1 |-> representative.file1,
           file2 |-> representative.file2,
           lines1 |-> representative.lines1,
           lines2 |-> representative.lines2,
           code |-> representative.code,
           similarity |-> representative.similarity,
           clusterSize |-> Len(cluster),
           allFiles |-> allFilesOf(locs, fileNames, 1),
           patternHash |-> hashCode(representative.code)]

\* what the loop over clusters pushes for one cluster
clusterFinding(cluster) ==
  IF Len(cluster) = 1 THEN cluster[1]
  ELSE LET locs == locations(cluster, 1)
           fileNames == firstSeen([k \in 1..Len(locs) |-> locs[k].file], 1)
           representative == representativeOf(cluster, 2, cluster[1])
       IN [file1 |-> representative.file1,
           file2 |-> representative.file2,
           lines1 |-> representative.lines1,
           lines2 |-> representative.lines2,
           code |-> representative.code,
           similarity |-> representative.similarity,
           clusterSize |-> Len(fileNames),
           allFiles |-> allFilesOf(locs, fileNames, 1),
           patternHash |-> hashCode(representative.code)]

clusterDuplicatesByPattern(duplicates) ==
  IF Len(duplicates) = 0 THEN <<>>
  ELSE LET clusters == clustersOf(duplicates)
       IN [c \in 1..Len(clusters) |-> clusterFinding(clusters[c])]

(***************************************************************************)
(* the final sort of findDuplicates                                        *)
(***************************************************************************)

\* a.clusterSize || 1
sizeOf(a) ==
  IF "clusterSize" \in DOMAIN a /\ a.clusterSize # 0 THEN a.clusterSize ELSE 1

\* the comparator of the final sort is <= 0: a does not come after b
notAfter(a, b) ==
  IF sizeOf(a) # sizeOf(b) THEN sizeOf(b) - sizeOf(a) <= 0
  ELSE RatioGE(a.similarity, b.similarity)

\* the list returned as the clusterer left it
sortFindings_unsorted(list) == list

RECURSIVE sortFindings(_)
\* clustered.sort(comparator), a stable sort
sortFindings(list) ==
  IF Len(list) <= 1 THEN list
  ELSE LET rest == sortFindings(SubSeq(list, 1, Len(list) - 1))
           x == list[Len(list)]
           before == {i \in 1..Len(rest) : notAfter(rest[i], x)}
           n == IF before = {} THEN 0 ELSE Max(before)
       IN SubSeq(rest, 1, n) \o <<x>> \o SubSeq(rest, n + 1, Len(rest))

(***************************************************************************)
(* the metrics of analyzeDuplication                                       *)
(***************************************************************************)

RECURSIVE calculateTotalLines_countsAll(_)
\* the sum of the additions of every file, the skipped ones too
calculateTotalLines_countsAll(list) ==
  IF Len(list) = 0 THEN 0
  ELSE list[Len(list)].additions
         + calculateTotalLines_countsAll(SubSeq(list, 1, Len(list) - 1))

RECURSIVE calculateTotalLines(_)
calculateTotalLines(list) ==
  IF Len(list) = 0 THEN 0
  ELSE (IF shouldSkipFile(list[Len(list)].filename) THEN 0 ELSE list[Len(list)].additions)
         + calculateTotalLines(SubSeq(list, 1, Len(list) - 1))

\* the set with the lines of the entries of allFiles added to it
uniqueLines_withAllFiles(dups) ==
  UNION {{<<dups[k].file1, i>> : i \in dups[k].lines1.start..dups[k].lines1.end}
           \cup {<<dups[k].file2, i>> : i \in dups[k].lines2.start..dups[k].lines2.end}
           \cup (IF "allFiles" \in DOMAIN dups[k]
                   THEN UNION {{<<dups[k].allFiles[e].file, i>> :
                                  i \in dups[k].allFiles[e].lines.start
                                          ..dups[k].allFiles[e].lines.end}
                               : e \in 1..Len(dups[k].allFiles)}
                   ELSE {})
         : k \in 1..Len(dups)}

\* the set uniqueLines of calculateDuplicatedLines
uniqueLines(dups) ==
  UNION {{<<dups[k].file1, i>> : i \in dups[k].lines1.start..dups[k].lines1.end}
           \cup {<<dups[k].file2, i>> : i \in dups[k].lines2.start..dups[k].lines2.end}
         : k \in 1..Len(dups)}

calculateDuplicatedLines(dups) == Cardinality(uniqueLines(dups))

\* calculateSeverity(percentage) for percentage = 100 * duplicatedLines / totalLines,
\* the value before it is rounded (0 when totalLines is 0)
calculateSeverity(duplicatedLines, totalLines) ==
  IF totalLines > 0 /\ 100 * duplicatedLines >= 30 * totalLines THEN "high"
  ELSE IF totalLines > 0 /\ 100 * duplicatedLines >= 15 * totalLines THEN "medium"
  ELSE "low"

\* the tenths cut off instead of rounded
roundedPercentage_truncated(duplicatedLines, totalLines) ==
  IF totalLines > 0 THEN (1000 * duplicatedLines) \div totalLines ELSE 0

\* Math.round(percentage * 10) / 10, held in tenths of a percent:
\* Math.round rounds a half up
roundedPercentage(duplicatedLines, totalLines) ==
  IF totalLines > 0
    THEN (2000 * duplicatedLines + totalLines) \div (2 * totalLines)
    ELSE 0

\* the report of the try block
analysisOf(list, dups) ==
  LET totalLines == calculateTotalLines(list)
      duplicatedLines == calculateDuplicatedLines(dups)
  IN [percentage |-> roundedPercentage(duplicatedLines, totalLines),
      severity |-> calculateSeverity(duplicatedLines, totalLines),
      duplicateBlocks |-> dups,
      totalLines |-> totalLines,
      duplicatedLines |-> duplicatedLines]

\* a catch block that logs and throws the error again
catchResult_rethrows ==
  [returns |-> FALSE,
   value |-> [percentage |-> 0,
              severity |-> "low",
              duplicateBlocks |-> <<>>,
              totalLines |-> 0,
              duplicatedLines |-> 0]]

\* the catch block: it returns this report and throws nothing
catchResult ==
  [returns |-> TRUE,
   value |-> [percentage |-> 0,
              severity |-> "low",
              duplicateBlocks |-> <<>>,
              totalLines |-> 0,
              duplicatedLines |-> 0]]

\* `for (const file of files)` throws on a list that is null or undefined, and
\* file.filename throws on an element that is
extractThrows(fs) ==
  \/ ~fs.defined
  \/ \E k \in 1..Len(fs.list) : ~fs.list[k].defined

\* analyzeDuplication(files) from the call to the return
analyzeDuplication(fs) ==
  IF extractThrows(fs) THEN catchResult.value
  ELSE analysisOf(fs.list,
         sortFindings(clusterDuplicatesByPattern(mergeOverlappingDuplicates(
           findPairs(extractCodeBlocks(fs.list))))))

(***************************************************************************)
(* The inputs: file descriptors (PrFile) with unified-diff patches         *)
(***************************************************************************)

MaxFiles == 3

DigitChars == <<"0","1","2","3","4","5","6","7","8","9">>

RECURSIVE digits(_)
\* the decimal digits of n
digits(n) ==
  IF n < 10 THEN <<DigitChars[n + 1]>>
  ELSE digits(n \div 10) \o <<DigitChars[(n % 10) + 1]>>

\* "@@ -0,0 +n,m @@"
hunkHeader(n, m) ==
  <<"@","@"," ","-","0",",","0"," ","+">> \o digits(n) \o <<",">> \o digits(m)
    \o <<" ","@","@">>

\* the i-th statement of the shared code, in lower and in upper case
lowerText(i) == <<"f", LowerLetters[i], ";">>

upperText(i) == <<"F", UpperLetters[i], ";">>

addedLines(texts) == [k \in 1..Len(texts) |-> <<"+">> \o texts[k]]

contextLine == <<" ", "}">>

RECURSIVE interleave(_, _)
\* every line of the list followed by the line sep
interleave(list, sep) ==
  IF Len(list) = 0 THEN <<>>
  ELSE <<list[1], sep>> \o interleave(Tail(list), sep)

\* one hunk at line n that adds the texts
plainPatch(n, texts) ==
  joinWith(<<hunkHeader(n, Len(texts))>> \o addedLines(texts), <<"\n">>)

\* one hunk at line n in which a context line follows every added line
gapPatch(n, texts) ==
  joinWith(<<hunkHeader(n, 2 * Len(texts))>> \o interleave(addedLines(texts), contextLine),
           <<"\n">>)

\* two hunks, at line n1 and then at line n2
twoHunkPatch(n1, texts1, n2, texts2) ==
  joinWith(<<hunkHeader(n1, Len(texts1))>> \o addedLines(texts1)
             \o <<hunkHeader(n2, Len(texts2))>> \o addedLines(texts2),
           <<"\n">>)

prFile(filename, additions, patch) ==
  [defined |-> TRUE, filename |-> filename, additions |-> additions, patch |-> patch]

\* a null element of the list
nullFile == [defined |-> FALSE, filename |-> <<>>, additions |-> 0, patch |-> <<>>]

NameA == <<"a",".","t","s">>

NameB == <<"b",".","t","s">>

NameC == <<"c",".","t","s">>

NameJson == <<"p",".","j","s","o","n">>

\* the file descriptors the lists are drawn from
FilePool ==
  { \* eleven statements added at line 1
    prFile(NameA, 11, plainPatch(1, [k \in 1..11 |-> lowerText(k)])),
    \* the same statements in upper case, added at line 20
    prFile(NameB, 11, plainPatch(20, [k \in 1..11 |-> upperText(k)])),
    \* a second entry of the name a.ts: the statements 2..10 with statement 2 repeated
    prFile(NameA, 11, plainPatch(1, [k \in 1..11 |->
             lowerText(IF k = 1 \/ k = 11 THEN 2 ELSE k)])),
    \* a large file whose patch is absent
    prFile(NameC, 125, <<>>),
    \* ten statements with a context line after each
    prFile(NameC, 10, gapPatch(1, [k \in 1..10 |-> upperText(k)])),
    \* ten statements in two hunks, the second hunk above the first
    prFile(NameC, 10, twoHunkPatch(30, [k \in 1..5 |-> lowerText(k)],
                                   1, [k \in 1..5 |-> lowerText(k + 5)])),
    \* the ten statements in another order
    prFile(NameC, 10, plainPatch(1, [k \in 1..10 |-> lowerText((k % 10) + 1)])),
    \* a file the skip filter drops
    prFile(NameJson, 1000, plainPatch(1, [k \in 1..10 |-> lowerText(k)])),
    nullFile }

FileLists == UNION {[1..n -> FilePool] : n \in 0..MaxFiles}

FileInputs ==
  {[defined |-> FALSE, list |-> <<>>]} \cup {[defined |-> TRUE, list |-> l] : l \in FileLists}

\* reviewPullRequest is not running
NoReview == [pc |-> "idle", llm |-> "notStarted"]

\* no invocation yet
NoCalls == [given |-> <<>>, log |-> <<>>]

\* extractAddedLines is not under study
NoParse == [patch |-> <<>>, lines |-> <<>>]

\* clusterDuplicatesByPattern is not run step by step
NoUnionFind == [pc |-> "idle", parent |-> <<>>]

(***************************************************************************)
(* analyzeDuplication as a state machine                                   *)
(***************************************************************************)

Init ==
  /\ files \in FileInputs
  /\ pc = "extract"
  /\ blocks = <<>>
  /\ pairs = <<>>
  /\ merged = <<>>
  /\ clustered = <<>>
  /\ findings = <<>>
  /\ threw = FALSE
  /\ report = <<>>
  /\ normIn = <<>>
  /\ normOut = <<>>
  /\ review = NoReview
  /\ calls = NoCalls
  /\ parse = NoParse
  /\ uf = NoUnionFind

\* the blocks kept on the service and added to by every invocation
ExtractCodeBlocks_keepsBlocks ==
  /\ pc = "extract"
  /\ IF extractThrows(files)
       THEN /\ threw' = TRUE
            /\ pc' = "catch"
            /\ UNCHANGED blocks
       ELSE /\ blocks' = blocks \o extractCodeBlocks(files.list)
            /\ pc' = "find"
            /\ UNCHANGED threw
  /\ UNCHANGED <<files, pairs, merged, clustered, findings, report, normIn, normOut, review, calls, parse, uf>>

\* const blocks = this.extractCodeBlocks(files), or the jump to the catch block
ExtractCodeBlocks ==
  /\ pc = "extract"
  /\ IF extractThrows(files)
       THEN /\ threw' = TRUE
            /\ pc' = "catch"
            /\ UNCHANGED blocks
       ELSE /\ blocks' = extractCodeBlocks(files.list)
            /\ pc' = "find"
            /\ UNCHANGED threw
  /\ UNCHANGED <<files, pairs, merged, clustered, findings, report, normIn, normOut, review, calls, parse, uf>>

\* const duplicates = this.findDuplicates(blocks): the passes, the merge, the
\* clustering and the sort
FindDuplicates ==
  /\ pc = "find"
  /\ LET p == findPairs(blocks)
         m == mergeOverlappingDuplicates(p)
         c == clusterDuplicatesByPattern(m)
     IN /\ pairs' = p
        /\ merged' = m
        /\ clustered' = c
        /\ findings' = sortFindings(c)
  /\ pc' = "metrics"
  /\ UNCHANGED <<files, blocks, threw, report, normIn, normOut, review, calls, parse, uf>>

\* the metrics and the return of the try block
ReturnAnalysis ==
  /\ pc = "metrics"
  /\ report' = analysisOf(files.list, findings)
  /\ pc' = "done"
  /\ UNCHANGED <<files, blocks, pairs, merged, clustered, findings, threw, normIn, normOut, review, calls, parse, uf>>

\* the catch block
CatchError ==
  /\ pc = "catch"
  /\ IF catchResult.returns
       THEN /\ report' = catchResult.value
            /\ pc' = "done"
       ELSE /\ pc' = "thrown"
            /\ UNCHANGED report
  /\ UNCHANGED <<files, blocks, pairs, merged, clustered, findings, threw, normIn, normOut, review, calls, parse, uf>>

Next ==
  \/ ExtractCodeBlocks
  \/ FindDuplicates
  \/ ReturnAnalysis
  \/ CatchError

Spec == Init /\ [][Next]_vars

(***************************************************************************)
(* analyzeDuplication on lists in which every file adds one shared block   *)
(***************************************************************************)

MaxCluster == 4

\* the name of the i-th file of such a list
sourceName(i) == <<LowerLetters[i], ".", "t", "s">>

\* the ten statements of the shared block, in lower or in upper case
sharedBlock(upper) == [k \in 1..10 |-> IF upper THEN upperText(k) ELSE lowerText(k)]

\* a further file that yields no block: one the skip filter drops, one without a
\* patch, one that adds five lines only
otherFiles(upper) ==
  { <<>>,
    <<prFile(NameJson, 1000, plainPatch(1, sharedBlock(upper)))>>,
    <<prFile(<<"z", ".", "t", "s">>, 125, <<>>)>>,
    <<prFile(<<"z", ".", "t", "s">>, 5, plainPatch(1, SubSeq(sharedBlock(upper), 1, 5)))>> }

\* n files that add the shared block and nothing else, the i-th at line starts[i]
sharedBlockLists ==
  UNION {
    { [i \in 1..c.n |-> prFile(sourceName(i), 10,
                               plainPatch(c.starts[i], sharedBlock(c.upper)))] \o other :
        other \in otherFiles(c.upper) }
    : c \in UNION { [n : {n}, starts : [1..n -> {1, 20}], upper : BOOLEAN]
                      : n \in 2..MaxCluster } }

InitShared ==
  /\ files \in {[defined |-> TRUE, list |-> l] : l \in sharedBlockLists}
  /\ pc = "extract"
  /\ blocks = <<>>
  /\ pairs = <<>>
  /\ merged = <<>>
  /\ clustered = <<>>
  /\ findings = <<>>
  /\ threw = FALSE
  /\ report = <<>>
  /\ normIn = <<>>
  /\ normOut = <<>>
  /\ review = NoReview
  /\ calls = NoCalls
  /\ parse = NoParse
  /\ uf = NoUnionFind

NextShared ==
  \/ ExtractCodeBlocks
  \/ FindDuplicates
  \/ ReturnAnalysis

SpecShared == InitShared /\ [][NextShared]_vars

(***************************************************************************)
(* ReviewService.reviewPullRequest around the call of analyzeDuplication   *)
(***************************************************************************)

\* eleven statements added to a.ts at line 1
lowerFile == prFile(NameA, 11, plainPatch(1, [k \in 1..11 |-> lowerText(k)]))

\* the same statements in upper case added to b.ts at line 20
upperFile == prFile(NameB, 11, plainPatch(20, [k \in 1..11 |-> upperText(k)]))

\* a file without a patch
patchlessFile == prFile(NameC, 125, <<>>)

\* a file the skip filter drops
skippedFile == prFile(NameJson, 1000, plainPatch(1, [k \in 1..10 |-> lowerText(k)]))

\* the lists getPrFiles resolves to
ReviewFileLists ==
  UNION {[1..n -> {lowerFile, upperFile, patchlessFile, skippedFile}] : n \in 0..2}

InitReview ==
  /\ files \in {[defined |-> TRUE, list |-> l] : l \in ReviewFileLists}
  /\ pc = "idle"
  /\ blocks = <<>>
  /\ pairs = <<>>
  /\ merged = <<>>
  /\ clustered = <<>>
  /\ findings = <<>>
  /\ threw = FALSE
  /\ report = <<>>
  /\ normIn = <<>>
  /\ normOut = <<>>
  /\ review = [pc |-> "start", llm |-> "notStarted"]
  /\ calls = NoCalls
  /\ parse = NoParse
  /\ uf = NoUnionFind

\* parsePrUrl and the await of getPrMetadata and getPrFiles: they give the files,
\* or one of them throws
FetchPr ==
  /\ review.pc = "start"
  /\ \E next \in {"fetched", "failed"} : review' = [review EXCEPT !.pc = next]
  /\ UNCHANGED <<files, pc, blocks, pairs, merged, clustered, findings, threw, report,
                 normIn, normOut, calls, parse, uf>>

\* if (files.length === 0) return { ..., duplicationAnalysis: { ... } }
ReturnNoChanges ==
  /\ review.pc = "fetched"
  /\ Len(files.list) = 0
  /\ report' = catchResult.value
  /\ review' = [review EXCEPT !.pc = "returned"]
  /\ UNCHANGED <<files, pc, blocks, pairs, merged, clustered, findings, threw,
                 normIn, normOut, calls, parse, uf>>

\* duplicationService.analyzeDuplication(files) is called: the first element of the
\* array given to Promise.all is evaluated
CallAnalyzeDuplication ==
  /\ review.pc = "fetched"
  /\ Len(files.list) > 0
  /\ pc' = "extract"
  /\ review' = [review EXCEPT !.pc = "analyzing"]
  /\ UNCHANGED <<files, blocks, pairs, merged, clustered, findings, threw, report,
                 normIn, normOut, calls, parse, uf>>

\* analyzeDuplication has returned; chunkDiff(files) runs and the await of
\* Promise.all over the two resolved promises ends
AwaitAnalysis ==
  /\ review.pc = "analyzing"
  /\ pc = "done"
  /\ review' = [review EXCEPT !.pc = "awaited"]
  /\ UNCHANGED <<files, pc, blocks, pairs, merged, clustered, findings, threw, report,
                 normIn, normOut, calls, parse, uf>>

\* llmService.reviewDiff(diff, metadata.title) is called
StartLlmReview ==
  /\ review.pc = "awaited"
  /\ review' = [pc |-> "reviewing", llm |-> "pending"]
  /\ UNCHANGED <<files, pc, blocks, pairs, merged, clustered, findings, threw, report,
                 normIn, normOut, calls, parse, uf>>

\* the promise of reviewDiff settles
LlmSettles ==
  /\ review.llm = "pending"
  /\ \E outcome \in {"resolved", "rejected"} : review' = [review EXCEPT !.llm = outcome]
  /\ UNCHANGED <<files, pc, blocks, pairs, merged, clustered, findings, threw, report,
                 normIn, normOut, calls, parse, uf>>

\* return { ...review, duplicationAnalysis }
ReturnReview ==
  /\ review.pc = "reviewing"
  /\ review.llm = "resolved"
  /\ review' = [review EXCEPT !.pc = "returned"]
  /\ UNCHANGED <<files, pc, blocks, pairs, merged, clustered, findings, threw, report,
                 normIn, normOut, calls, parse, uf>>

\* the catch block of reviewPullRequest: it logs and throws the error again
RethrowError ==
  /\ \/ review.pc = "failed"
     \/ review.pc = "reviewing" /\ review.llm = "rejected"
  /\ review' = [review EXCEPT !.pc = "thrown"]
  /\ UNCHANGED <<files, pc, blocks, pairs, merged, clustered, findings, threw, report,
                 normIn, normOut, calls, parse, uf>>

NextReview ==
  \/ FetchPr
  \/ ReturnNoChanges
  \/ CallAnalyzeDuplication
  \/ ExtractCodeBlocks
  \/ FindDuplicates
  \/ ReturnAnalysis
  \/ AwaitAnalysis
  \/ StartLlmReview
  \/ LlmSettles
  \/ ReturnReview
  \/ RethrowError

SpecReview == InitReview /\ [][NextReview]_vars

(***************************************************************************)
(* Invocations of analyzeDuplication on the singleton, one after another   *)
(***************************************************************************)

MaxCalls == 2

\* the arguments of the invocations
CallInputs ==
  {[defined |-> FALSE, list |-> <<>>]}
    \cup {[defined |-> TRUE, list |-> l] :
            l \in {<<>>, <<lowerFile>>, <<upperFile>>, <<lowerFile, upperFile>>,
                   <<upperFile, lowerFile>>, <<lowerFile, nullFile>>}}

InitCalls ==
  /\ files = [defined |-> TRUE, list |-> <<>>]
  /\ pc = "idle"
  /\ blocks = <<>>
  /\ pairs = <<>>
  /\ merged = <<>>
  /\ clustered = <<>>
  /\ findings = <<>>
  /\ threw = FALSE
  /\ report = <<>>
  /\ normIn = <<>>
  /\ normOut = <<>>
  /\ review = NoReview
  /\ calls = NoCalls
  /\ parse = NoParse
  /\ uf = NoUnionFind

\* a caller invokes duplicationService.analyzeDuplication(files): the call is
\* synchronous, so it starts when no other invocation is running; what the locals
\* of the last invocation held is of no account
Invoke ==
  /\ pc = "idle"
  /\ Len(calls.log) < MaxCalls
  /\ files' \in CallInputs
  /\ calls' = [calls EXCEPT !.given = files']
  /\ pc' = "extract"
  /\ threw' = FALSE
  /\ UNCHANGED <<blocks, pairs, merged, clustered, findings, report, normIn, normOut,
                 review, parse, uf>>

\* the caller receives the report; the argument it gave is as the call left it
ReceiveReport ==
  /\ pc = "done"
  /\ calls.given # <<>>
  /\ calls' = [calls EXCEPT
                 !.log = Append(@, [given |-> calls.given, left |-> files, report |-> report])]
  /\ pc' = "idle"
  /\ UNCHANGED <<files, blocks, pairs, merged, clustered, findings, threw, report,
                 normIn, normOut, review, parse, uf>>

NextCalls ==
  \/ Invoke
  \/ ExtractCodeBlocks
  \/ FindDuplicates
  \/ ReturnAnalysis
  \/ CatchError
  \/ ReceiveReport

SpecCalls == InitCalls /\ [][NextCalls]_vars

(***************************************************************************)
(* extractAddedLines, one line of the patch at a time                      *)
(***************************************************************************)

MaxPatchLines == 4

\* the lines a patch is written from: hunk headers (one of them with no +N), an
\* added line, the two file headers, a deletion, a context line and the marker
\* "\ No newline at end of file"
PatchLineTexts ==
  { <<"@","@"," ","-","1",",","2"," ","+","5",",","3"," ","@","@">>,
    <<"@","@"," ","-","1"," ","+","1","2"," ","@","@">>,
    <<"@","@"," ","@","@">>,
    <<"+","a">>,
    <<"+","+","+"," ","b">>,
    <<"-","-","-"," ","a">>,
    <<"-","x">>,
    <<" ","c">>,
    <<"\\"," ","N","o"," ","n","e","w","l","i","n","e">> }

PatchInputs ==
  {joinWith(l, <<"\n">>) : l \in UNION {[1..n -> PatchLineTexts] : n \in 1..MaxPatchLines}}

InitPatch ==
  /\ parse \in {[pc |-> "split", patch |-> p, patchLines |-> <<>>, k |-> 0,
                  currentLine |-> 0, lines |-> <<>>] : p \in PatchInputs}
  /\ files = [defined |-> TRUE, list |-> <<>>]
  /\ pc = "idle"
  /\ blocks = <<>>
  /\ pairs = <<>>
  /\ merged = <<>>
  /\ clustered = <<>>
  /\ findings = <<>>
  /\ threw = FALSE
  /\ report = <<>>
  /\ normIn = <<>>
  /\ normOut = <<>>
  /\ review = NoReview
  /\ calls = NoCalls
  /\ uf = NoUnionFind

\* const lines = []; const patchLines = patch.split('\n'); let currentLine = 0
SplitPatch ==
  /\ parse.pc = "split"
  /\ parse' = [parse EXCEPT !.pc = "loop",
                            !.patchLines = splitOn(parse.patch, "\n", 1),
                            !.k = 1,
                            !.currentLine = 0,
                            !.lines = <<>>]
  /\ UNCHANGED <<files, pc, blocks, pairs, merged, clustered, findings, threw, report,
                 normIn, normOut, review, calls, uf>>

\* one iteration of `for (const line of patchLines)`
ParseLine ==
  /\ parse.pc = "loop"
  /\ parse.k <= Len(parse.patchLines)
  /\ LET after == parseLine(parse.patchLines[parse.k], parse.currentLine, parse.lines)
     IN parse' = [parse EXCEPT !.k = parse.k + 1,
                               !.currentLine = after.currentLine,
                               !.lines = after.lines]
  /\ UNCHANGED <<files, pc, blocks, pairs, merged, clustered, findings, threw, report,
                 normIn, normOut, review, calls, uf>>

\* return lines
ReturnLines ==
  /\ parse.pc = "loop"
  /\ parse.k > Len(parse.patchLines)
  /\ parse' = [parse EXCEPT !.pc = "returned"]
  /\ UNCHANGED <<files, pc, blocks, pairs, merged, clustered, findings, threw, report,
                 normIn, normOut, review, calls, uf>>

NextPatch ==
  \/ SplitPatch
  \/ ParseLine
  \/ ReturnLines

SpecPatch == InitPatch /\ [][NextPatch]_vars

(***************************************************************************)
(* analyzeDuplication with clusterDuplicatesByPattern run step by step:    *)
(* every iteration of its loops and every level of the recursion of find   *)
(* is a step                                                               *)
(***************************************************************************)

MaxChain == 4

\* the k-th line of the m-th variant of a block of two one-letter words a line: the
\* variants m and m' differ in the second word of |m - m'| lines
chainLine(m, k) ==
  <<LowerLetters[k], " ", LowerLetters[(IF k <= m THEN 22 ELSE 11) + k]>>

\* the ten lines of the variant m
chainBlock(m) == [k \in 1..10 |-> chainLine(m, k)]

\* a patch of one hunk at line 1 that adds the lines, with the number of its additions
chainPatch(texts) == [additions |-> Len(texts), patch |-> plainPatch(1, texts)]

\* the patches a file of such a list may carry
ChainPatches ==
  \* ten lines of the variant m
  {chainPatch(chainBlock(m)) : m \in 0..2}
    \cup
  { \* the variant 0 with a third word in its first line
    chainPatch([chainBlock(0) EXCEPT ![1] = chainLine(0, 1) \o <<" ", "0">>]),
    \* the variant 0 in upper case
    chainPatch([k \in 1..10 |-> <<UpperLetters[k], " ", UpperLetters[11 + k]>>]),
    \* eleven lines of the variant 0
    chainPatch([k \in 1..11 |-> chainLine(0, k)]) }

\* two hunks: the lines 2..11 of the variant 0 at line 1, its lines 1..10 at line 100
splitPatch ==
  [additions |-> 20,
   patch |-> twoHunkPatch(1, [k \in 1..10 |-> chainLine(0, k + 1)],
                          100, [k \in 1..10 |-> chainLine(0, k)])]

\* the files of the list, of different names, that carry the patches
chainFiles(ps) ==
  [i \in 1..Len(ps) |-> prFile(sourceName(i), ps[i].additions, ps[i].patch)]

\* lists of up to MaxChain files, and the lists of a file of two hunks and another
ChainLists ==
  UNION {{chainFiles(ps) : ps \in [1..n -> ChainPatches]} : n \in 0..MaxChain}
    \cup UNION {{chainFiles(<<splitPatch, p>>), chainFiles(<<p, splitPatch>>)}
                  : p \in ChainPatches}

\* find(x) is entered for the caller: union's rootX, union's rootY, or the loop that
\* fills clusterMap
callFind(u, x, caller) ==
  [u EXCEPT !.pc = "find", !.cur = x, !.stack = <<>>, !.caller = caller]

\* the pair (i, j) of the nested loops after (i, j)
nextPair(u, n) ==
  IF u.j < n THEN [u EXCEPT !.j = u.j + 1]
  ELSE [u EXCEPT !.i = u.i + 1, !.j = u.i + 2]

\* a find that makes x its own parent
compress_self(parent, x, root) == [parent EXCEPT ![x] = x]

\* parent[x] = find(parent[x]) once the root is known
compress(parent, x, root) == [parent EXCEPT ![x] = root]

\* a union that leaves the parent array as it is
linkRoots_never(parent, rootX, rootY) == parent

\* parent[rootX] = rootY
linkRoots(parent, rootX, rootY) ==
  IF rootX # rootY THEN [parent EXCEPT ![rootX] = rootY] ELSE parent

InitCluster ==
  /\ files \in {[defined |-> TRUE, list |-> l] : l \in ChainLists}
  /\ pc = "extract"
  /\ blocks = <<>>
  /\ pairs = <<>>
  /\ merged = <<>>
  /\ clustered = <<>>
  /\ findings = <<>>
  /\ threw = FALSE
  /\ report = <<>>
  /\ normIn = <<>>
  /\ normOut = <<>>
  /\ review = NoReview
  /\ calls = NoCalls
  /\ parse = NoParse
  /\ uf = NoUnionFind

\* the two passes of findDuplicates and the call of mergeOverlappingDuplicates
MergePairs ==
  /\ pc = "find"
  /\ pairs' = findPairs(blocks)
  /\ merged' = mergeOverlappingDuplicates(pairs')
  /\ pc' = "cluster"
  /\ uf' = [pc |-> "start", parent |-> <<>>]
  /\ UNCHANGED <<files, blocks, clustered, findings, threw, report, normIn, normOut,
                 review, calls, parse>>

\* the entry of clusterDuplicatesByPattern: [] for no duplicates, else the parent
\* array in which every index is its own parent
StartCluster ==
  /\ pc = "cluster"
  /\ uf.pc = "start"
  /\ IF Len(merged) = 0
       THEN /\ clustered' = <<>>
            /\ pc' = "sort"
            /\ uf' = [uf EXCEPT !.pc = "done"]
       ELSE /\ uf' = [pc |-> "loop",
                      parent |-> [k \in 1..Len(merged) |-> k],
                      i |-> 1, j |-> 2, k |-> 1,
                      cur |-> 0, stack |-> <<>>, caller |-> "x", root |-> 0,
                      rootX |-> 0, rootY |-> 0, roots |-> <<>>]
            /\ UNCHANGED <<clustered, pc>>
  /\ UNCHANGED <<files, blocks, pairs, merged, findings, threw, report, normIn, normOut,
                 review, calls, parse>>

\* one iteration of the inner loop: the similarity of duplicates[i] and duplicates[j],
\* and the entry of union(i, j), which begins with find(x)
CompareRecords ==
  /\ pc = "cluster"
  /\ uf.pc = "loop"
  /\ uf.j <= Len(merged)
  /\ LET similarity == calculateSimilarity(merged[uf.i].code, merged[uf.j].code)
     IN uf' = IF RatioGE(similarity, CLUSTER_SIMILARITY_THRESHOLD)
                THEN callFind(uf, uf.i, "x")
                ELSE nextPair(uf, Len(merged))
  /\ UNCHANGED <<files, pc, blocks, pairs, merged, clustered, findings, threw, report,
                 normIn, normOut, review, calls, parse>>

\* the nested loops are over; the loop that fills clusterMap begins
EndLoop ==
  /\ pc = "cluster"
  /\ uf.pc = "loop"
  /\ uf.j > Len(merged)
  /\ uf' = [uf EXCEPT !.pc = "collect", !.k = 1]
  /\ UNCHANGED <<files, pc, blocks, pairs, merged, clustered, findings, threw, report,
                 normIn, normOut, review, calls, parse>>

\* find(x) with parent[x] !== x: the recursive call find(parent[x])
Descend ==
  /\ pc = "cluster"
  /\ uf.pc = "find"
  /\ uf.parent[uf.cur] # uf.cur
  /\ uf' = [uf EXCEPT !.stack = Append(uf.stack, uf.cur), !.cur = uf.parent[uf.cur]]
  /\ UNCHANGED <<files, pc, blocks, pairs, merged, clustered, findings, threw, report,
                 normIn, normOut, review, calls, parse>>

\* find(x) with parent[x] === x: return parent[x]
ReachRoot ==
  /\ pc = "cluster"
  /\ uf.pc = "find"
  /\ uf.parent[uf.cur] = uf.cur
  /\ uf' = [uf EXCEPT !.pc = "unwind", !.root = uf.cur]
  /\ UNCHANGED <<files, pc, blocks, pairs, merged, clustered, findings, threw, report,
                 normIn, normOut, review, calls, parse>>

\* a recursive call has returned: parent[x] = (what it returned); return parent[x]
Unwind ==
  /\ pc = "cluster"
  /\ uf.pc = "unwind"
  /\ Len(uf.stack) > 0
  /\ uf' = [uf EXCEPT !.parent = compress(uf.parent, uf.stack[Len(uf.stack)], uf.root),
                      !.stack = SubSeq(uf.stack, 1, Len(uf.stack) - 1)]
  /\ UNCHANGED <<files, pc, blocks, pairs, merged, clustered, findings, threw, report,
                 normIn, normOut, review, calls, parse>>

\* the outermost find returns to its caller
ReturnFind ==
  /\ pc = "cluster"
  /\ uf.pc = "unwind"
  /\ Len(uf.stack) = 0
  /\ uf' = IF uf.caller = "x"
             THEN callFind([uf EXCEPT !.rootX = uf.root], uf.j, "y")
           ELSE IF uf.caller = "y"
             THEN [uf EXCEPT !.rootY = uf.root, !.pc = "link"]
           ELSE [uf EXCEPT !.roots = Append(uf.roots, uf.root), !.k = uf.k + 1,
                           !.pc = "collect"]
  /\ UNCHANGED <<files, pc, blocks, pairs, merged, clustered, findings, threw, report,
                 normIn, normOut, review, calls, parse>>

\* if (rootX !== rootY) parent[rootX] = rootY, and the next iteration
Link ==
  /\ pc = "cluster"
  /\ uf.pc = "link"
  /\ uf' = nextPair([uf EXCEPT !.parent = linkRoots(uf.parent, uf.rootX, uf.rootY),
                               !.pc = "loop"],
                    Len(merged))
  /\ UNCHANGED <<files, pc, blocks, pairs, merged, clustered, findings, threw, report,
                 normIn, normOut, review, calls, parse>>

\* const root = find(i) of the loop that fills clusterMap
CollectRoot ==
  /\ pc = "cluster"
  /\ uf.pc = "collect"
  /\ uf.k <= Len(merged)
  /\ uf' = callFind(uf, uf.k, "collect")
  /\ UNCHANGED <<files, pc, blocks, pairs, merged, clustered, findings, threw, report,
                 normIn, normOut, review, calls, parse>>

\* the loop over the clusters, and the return of clusterDuplicatesByPattern
EmitClusters ==
  /\ pc = "cluster"
  /\ uf.pc = "collect"
  /\ uf.k > Len(merged)
  /\ LET clusters == clustersFrom(merged, uf.roots)
     IN clustered' = [c \in 1..Len(clusters) |-> clusterFinding(clusters[c])]
  /\ uf' = [uf EXCEPT !.pc = "done"]
  /\ pc' = "sort"
  /\ UNCHANGED <<files, blocks, pairs, merged, findings, threw, report, normIn, normOut,
                 review, calls, parse>>

\* return clustered.sort(...)
SortClustered ==
  /\ pc = "sort"
  /\ findings' = sortFindings(clustered)
  /\ pc' = "metrics"
  /\ UNCHANGED <<files, blocks, pairs, merged, clustered, threw, report, normIn, normOut,
                 review, calls, parse, uf>>

NextCluster ==
  \/ ExtractCodeBlocks
  \/ MergePairs
  \/ StartCluster
  \/ CompareRecords
  \/ EndLoop
  \/ Descend
  \/ ReachRoot
  \/ Unwind
  \/ ReturnFind
  \/ Link
  \/ CollectRoot
  \/ EmitClusters
  \/ SortClustered
  \/ ReturnAnalysis

SpecCluster == InitCluster /\ [][NextCluster]_vars


(***************************************************************************)
(* normalizeCode on its own: two texts of the same shape                   *)
(***************************************************************************)

MaxSegments == 2

\* the pieces a text is written from: code, string literals, comments, white space
CodeSegments == {[kind |-> "code", quote |-> "", text |-> t] : t \in {<<"a">>, <<"A">>}}

LiteralSegments ==
  {[kind |-> "literal", quote |-> q, text |-> t] :
     q \in {DoubleQuote, SingleQuote, BackQuote},
     t \in {<<"a">>, <<"/", "/">>, <<"/", "*">>}}

LineCommentSegments ==
  {[kind |-> "lineComment", quote |-> "", text |-> t] : t \in {<<"c">>, <<SingleQuote>>}}

BlockCommentSegments ==
  {[kind |-> "blockComment", quote |-> "", text |-> t] : t \in {<<"c">>, <<DoubleQuote>>}}

SpaceSegments == {[kind |-> "space", quote |-> "", text |-> t] : t \in {<<" ">>, <<"\n", "\t">>}}

Segments ==
  CodeSegments \cup LiteralSegments \cup LineCommentSegments \cup BlockCommentSegments
    \cup SpaceSegments

\* the source text of a segment; a line comment runs to the end of its line
renderSegment(g) ==
  CASE g.kind = "code" -> g.text
    [] g.kind = "literal" -> <<g.quote>> \o g.text \o <<g.quote>>
    [] g.kind = "lineComment" -> <<"/", "/">> \o g.text \o <<"\n">>
    [] g.kind = "blockComment" -> <<"/", "*">> \o g.text \o <<"*", "/">>
    [] g.kind = "space" -> g.text

RECURSIVE renderText(_)
renderText(segs) ==
  IF Len(segs) = 0 THEN <<>> ELSE renderSegment(segs[1]) \o renderText(Tail(segs))

\* two segments that differ at most in the contents of a comment or of a string
\* literal, in the white space, or in letter case
sameSegmentShape(g, h) ==
  /\ g.kind = h.kind
  /\ g.quote = h.quote
  /\ g.kind = "code" => toLowerCase(g.text) = toLowerCase(h.text)

sameShape(t, u) ==
  /\ Len(t) = Len(u)
  /\ \A k \in 1..Len(t) : sameSegmentShape(t[k], u[k])

SegmentTexts == UNION {[1..n -> Segments] : n \in 1..MaxSegments}

InitNorm ==
  /\ normIn \in {<<t, u>> : t \in SegmentTexts, u \in SegmentTexts}
  /\ sameShape(normIn[1], normIn[2])
  /\ normOut = <<>>
  /\ review = NoReview
  /\ calls = NoCalls
  /\ parse = NoParse
  /\ uf = NoUnionFind
  /\ pc = "normalize"
  /\ files = [defined |-> TRUE, list |-> <<>>]
  /\ blocks = <<>>
  /\ pairs = <<>>
  /\ merged = <<>>
  /\ clustered = <<>>
  /\ findings = <<>>
  /\ threw = FALSE
  /\ report = <<>>

\* normalizeCode on both texts, and the fingerprints of the results
NormalizeBoth ==
  /\ pc = "normalize"
  /\ normOut' = [k \in 1..2 |->
                   LET n == normalizeCode(renderText(normIn[k]))
                   IN [normalizedCode |-> n, hash |-> hashCode(n)]]
  /\ pc' = "normalized"
  /\ UNCHANGED <<files, blocks, pairs, merged, clustered, findings, threw, report, normIn,
               review, calls, parse, uf>>

NextNorm == NormalizeBoth

SpecNorm == InitNorm /\ [][NextNorm]_vars

(***************************************************************************)
(* Properties                                                              *)
(***************************************************************************)

Returned == pc = "done"

EmptyReport ==
  [percentage |-> 0, severity |-> "low", duplicateBlocks |-> <<>>, totalLines |-> 0,
   duplicatedLines |-> 0]

\* C1: analyzeDuplication never lets an exception out, what it returns is a report,
\* and when a step inside it threw the report is the empty report
C1_NeverThrows ==
  /\ pc # "thrown"
  /\ Returned =>
       /\ DOMAIN report =
            {"percentage", "severity", "duplicateBlocks", "totalLines", "duplicatedLines"}
       /\ threw => report = EmptyReport

\* a call on a list of two entries whose second entry is null: it threw inside and returned
C1_Witness ==
  /\ Returned
  /\ threw
  /\ files.defined
  /\ Len(files.list) = 2
  /\ files.list[1].defined

\* C2: the percentage of every returned report lies in [0, 100] (in tenths: 0..1000)
C2_PercentageInRange ==
  Returned => report.percentage >= 0 /\ report.percentage <= 1000

\* C3: the severity of every returned report follows from its rounded percentage:
\* high iff it is >= 30, medium iff it is in [15, 30), low otherwise
C3_SeverityOfReturnedPercentage ==
  Returned =>
    /\ report.severity = "high" <=> report.percentage >= 300
    /\ report.severity = "medium" <=> (report.percentage >= 150 /\ report.percentage < 300)
    /\ report.severity = "low" <=> report.percentage < 150

\* C4: the percentage of every returned report is 100 * duplicatedLines / totalLines
\* rounded to one decimal (it is within half a tenth of the ratio) when totalLines > 0,
\* and 0 when totalLines = 0
C4_PercentageIsRoundedRatio ==
  Returned =>
    IF report.totalLines > 0
      THEN LET diff == report.percentage * report.totalLines - 1000 * report.duplicatedLines
           IN 2 * diff <= report.totalLines /\ 2 * diff >= - report.totalLines
      ELSE report.percentage = 0

\* a report whose ratio has more than one decimal, rounded up
C4_Witness ==
  /\ Returned
  /\ report.totalLines > 0
  /\ report.percentage * report.totalLines > 1000 * report.duplicatedLines

AllRecords ==
  Range(pairs) \cup Range(merged) \cup Range(clustered) \cup Range(findings)
    \cup (IF Returned THEN Range(report.duplicateBlocks) ELSE {})

\* C5: both line ranges of every finding of a returned report have start <= end
C5_RangesOrdered ==
  Returned =>
    \A d \in Range(report.duplicateBlocks) :
      d.lines1.start <= d.lines1.end /\ d.lines2.start <= d.lines2.end

\* C6: file1 # file2 in every record of every stage and of the report, and every
\* record after stage 4 has the file1 and file2 of a stage-4 pair
C6_DistinctFiles ==
  /\ \A d \in AllRecords : d.file1 # d.file2
  /\ \A d \in AllRecords :
       \E q \in Range(pairs) : q.file1 = d.file1 /\ q.file2 = d.file2

\* a report with findings for a list in which two entries of one name produced
\* blocks of one fingerprint
C6_Witness ==
  /\ Returned
  /\ Len(report.duplicateBlocks) > 0
  /\ \E i, j \in 1..Len(blocks) :
       i < j /\ blocks[i].file = blocks[j].file /\ blocks[i].hash = blocks[j].hash

\* the dedup key of a finding: the unordered pair of its two endpoints
findingKey(d) ==
  {<<d.file1, d.lines1.start, d.lines1.end>>, <<d.file2, d.lines2.start, d.lines2.end>>}

\* C7: no two findings of a returned report have the same dedup key
C7_NoSharedKey ==
  Returned =>
    \A i, j \in 1..Len(report.duplicateBlocks) :
      i < j => findingKey(report.duplicateBlocks[i]) # findingKey(report.duplicateBlocks[j])

\* the cluster size of a finding, 1 when it has none
clusterSizeOr1(d) == IF "clusterSize" \in DOMAIN d THEN d.clusterSize ELSE 1

\* C8: the findings of a returned report are in order: cluster size descending and,
\* among equal cluster sizes, similarity descending
C8_Sorted ==
  Returned =>
    \A k \in 1..(Len(report.duplicateBlocks) - 1) :
      LET a == report.duplicateBlocks[k]
          b == report.duplicateBlocks[k + 1]
      IN \/ clusterSizeOr1(a) > clusterSizeOr1(b)
         \/ /\ clusterSizeOr1(a) = clusterSizeOr1(b)
            /\ a.similarity.num * b.similarity.den >= b.similarity.num * a.similarity.den

\* a report of several findings that the clusterer had left in another order
C8_Witness ==
  /\ Returned
  /\ Len(report.duplicateBlocks) >= 2
  /\ clustered # report.duplicateBlocks

\* C9: after stage 4 every pair of blocks of different files whose normalized
\* tokens have a Jaccard similarity of at least 0.85 has a stage-4 pair
C9_NoSimilarPairUnreported ==
  pc \in {"metrics", "done"} =>
    \A i, j \in 1..Len(blocks) :
      (/\ i < j
       /\ blocks[i].file # blocks[j].file
       /\ LET T1 == Range(splitSpaces(blocks[i].normalizedCode, 1))
              T2 == Range(splitSpaces(blocks[j].normalizedCode, 1))
          IN 100 * Cardinality(T1 \cap T2) >= 85 * Cardinality(T1 \cup T2))
      => \E q \in Range(pairs) : findingKey(q) = createDuplicateKey(blocks[i], blocks[j])

\* C10: two texts that differ only in comments, in the contents of string literals,
\* in white space or in letter case have the same normalized code and fingerprint
C10_NormalizationInvariance ==
  (pc = "normalized" /\ sameShape(normIn[1], normIn[2])) => normOut[1] = normOut[2]

\* the list without its k-th entry
removeAt(list, k) == SubSeq(list, 1, k - 1) \o SubSeq(list, k + 1, Len(list))

\* C11: removing from the list a file whose name the skip filter matches leaves the
\* report as it is: a skipped file contributes neither blocks nor additions
C11_SkipFilterIdempotent ==
  (Returned /\ files.defined) =>
    \A k \in 1..Len(files.list) :
      (files.list[k].defined /\ shouldSkipFile(files.list[k].filename)) =>
        report = analyzeDuplication([files EXCEPT !.list = removeAt(files.list, k)])

\* a report with findings for a list that holds a skipped file with additions
C11_Witness ==
  /\ Returned
  /\ ~threw
  /\ Len(report.duplicateBlocks) > 0
  /\ \E k \in 1..Len(files.list) :
       shouldSkipFile(files.list[k].filename) /\ files.list[k].additions > 0

RECURSIVE runsOf(_, _, _, _)
\* mergeWalk with the pairs that went into every record it pushes
runsOf(sorted, k, current, run) ==
  IF k > Len(sorted) THEN <<[record |-> current, sources |-> run]>>
  ELSE LET next == sorted[k]
       IN IF overlap1(current, next) /\ overlap2(current, next)
            THEN runsOf(sorted, k + 1, mergeInto(current, next), Append(run, next))
            ELSE <<[record |-> current, sources |-> run]>>
                   \o runsOf(sorted, k + 1, next, <<next>>)

RECURSIVE groupRuns(_, _, _)
groupRuns(dups, keys, k) ==
  IF k > Len(keys) THEN <<>>
  ELSE LET sorted == sortByStart1(groupOf(dups, keys[k], 1))
       IN runsOf(sorted, 2, sorted[1], <<sorted[1]>>) \o groupRuns(dups, keys, k + 1)

\* every record of `merged` with the stage-4 pairs it was merged from
mergedRuns == groupRuns(pairs, groupKeys(pairs, 1), 1)

\* the stage-4 pairs behind the c-th cluster of the merged records
clusterSources(c) ==
  UNION {Range(mergedRuns[k].sources) :
           k \in {k \in 1..Len(merged) : merged[k] \in Range(clustersOf(merged)[c])}}

InSimilarityRange(d) ==
  RatioGE(d.similarity, SIMILARITY_THRESHOLD) /\ RatioGE(One, d.similarity)

\* C12: every finding of a returned report has a similarity in [0.85, 1.0], and a
\* finding that stems from an exact match has similarity 1.0: a merged record has it
\* when one of the pairs merged into it is exact, and so has the finding of a cluster
\* when one of the pairs behind the cluster is exact
C12_SimilarityBounds ==
  Returned =>
    /\ \A d \in Range(report.duplicateBlocks) : InSimilarityRange(d)
    /\ Len(mergedRuns) = Len(merged)
    /\ \A k \in 1..Len(merged) :
         /\ mergedRuns[k].record = merged[k]
         /\ (\E q \in Range(mergedRuns[k].sources) : q.similarity = One)
              => merged[k].similarity = One
    /\ \A c \in 1..Len(clustered) :
         /\ clustered[c] \in Range(report.duplicateBlocks)
         /\ (\E q \in clusterSources(c) : q.similarity = One)
              => clustered[c].similarity = One
    /\ Range(report.duplicateBlocks) = Range(clustered)

\* a report with a record merged from an exact pair and a fuzzy pair
C12_Witness ==
  /\ Returned
  /\ \E k \in 1..Len(merged) :
       /\ k <= Len(mergedRuns)
       /\ \E q \in Range(mergedRuns[k].sources) : q.similarity = One
       /\ \E q \in Range(mergedRuns[k].sources) : q.similarity # One

\* the findings of the report that carry allFiles
ClusteredFindings ==
  IF Returned THEN {d \in Range(report.duplicateBlocks) : "allFiles" \in DOMAIN d} ELSE {}

\* C13: in every clustered finding the ranges allFiles lists for one file lie apart
\* by more than the slack of 2 lines, so no two of them overlap
C13_AllFilesRangesApart ==
  \A d \in ClusteredFindings :
    \A i, j \in 1..Len(d.allFiles) :
      (i < j /\ d.allFiles[i].file = d.allFiles[j].file) =>
        d.allFiles[j].lines.start > d.allFiles[i].lines.end + 2

\* a clustered finding that lists two ranges of one file, the cluster having
\* contributed a range of that file more than once
C13_Witness ==
  \E d \in ClusteredFindings :
    \E i, j \in 1..Len(d.allFiles) : i < j /\ d.allFiles[i].file = d.allFiles[j].file

\* the file names of the records of a cluster
clusterFileNames(cluster) ==
  {cluster[k].file1 : k \in 1..Len(cluster)} \cup {cluster[k].file2 : k \in 1..Len(cluster)}

\* C14: the clusterSize of every clustered finding is the number of distinct file
\* names in its allFiles, which is the number of distinct files that are file1 or
\* file2 of a pair of its cluster, and it is at least 2
C14_ClusterSizeCountsFiles ==
  Returned =>
    /\ \A d \in ClusteredFindings : d \in Range(clustered)
    /\ \A c \in 1..Len(clustered) :
         "allFiles" \in DOMAIN clustered[c] =>
           /\ clustered[c].clusterSize
                = Cardinality({clustered[c].allFiles[i].file :
                                 i \in 1..Len(clustered[c].allFiles)})
           /\ clustered[c].clusterSize
                = Cardinality(clusterFileNames(clustersOf(merged)[c]))
           /\ clustered[c].clusterSize >= 2

\* a clustered finding of more pairs than files
C14_Witness ==
  /\ Returned
  /\ \E c \in 1..Len(clustered) :
       /\ "allFiles" \in DOMAIN clustered[c]
       /\ clustered[c] \in Range(report.duplicateBlocks)
       /\ Len(clustersOf(merged)[c]) > clustered[c].clusterSize

\* a file the skip filter keeps whose patch adds exactly ten lines, numbered
\* contiguously, that form a non-trivial block
AddsTenLines(f) ==
  /\ f.defined
  /\ ~shouldSkipFile(f.filename)
  /\ Len(f.patch) > 0
  /\ LET lines == extractAddedLines(f.patch)
     IN /\ Len(lines) = 10
        /\ \A k \in 1..10 : lines[k].lineNumber = lines[1].lineNumber + k - 1
        /\ Len(fileBlocks(f)) = 1

\* the contents of the lines a patch adds
addedContents(f) ==
  LET lines == extractAddedLines(f.patch)
  IN [k \in 1..Len(lines) |-> lines[k].content]

\* a file that yields no block
YieldsNoBlock(f) ==
  f.defined /\ (shouldSkipFile(f.filename) \/ Len(f.patch) = 0 \/ fileBlocks(f) = <<>>)

\* the indices of the files of the list that add the shared ten lines, when the list
\* is made of such files, of different names, and of files that yield no block
sharedSources ==
  LET S == {k \in 1..Len(files.list) : AddsTenLines(files.list[k])}
  IN IF /\ \A k \in 1..Len(files.list) : k \in S \/ YieldsNoBlock(files.list[k])
        /\ \A i, j \in S :
             /\ addedContents(files.list[i]) = addedContents(files.list[j])
             /\ i # j => files.list[i].filename # files.list[j].filename
       THEN S ELSE {}

\* the range of the ten lines the k-th file adds
tenLines(k) ==
  LET lines == extractAddedLines(files.list[k].patch)
  IN [start |-> lines[1].lineNumber, end |-> lines[10].lineNumber]

\* C15: when exactly two files of different names add the same ten contiguous
\* non-trivial lines and nothing else, and no other file yields a block, the report
\* has exactly one finding: similarity 1.0, lines1 and lines2 the ten lines of the
\* two files, no clusterSize, allFiles or patternHash, and duplicatedLines is 20
C15_ExactDuplicateOfTwoFiles ==
  (Returned /\ Cardinality(sharedSources) = 2) =>
    LET i == CHOOSE i \in sharedSources : \A j \in sharedSources : i <= j
        j == CHOOSE j \in sharedSources : j # i
    IN /\ Len(report.duplicateBlocks) = 1
       /\ LET d == report.duplicateBlocks[1]
          IN /\ d.similarity = One
             /\ d.file1 = files.list[i].filename
             /\ d.file2 = files.list[j].filename
             /\ d.lines1 = tenLines(i)
             /\ d.lines2 = tenLines(j)
             /\ d.lines1.end - d.lines1.start = 9
             /\ d.lines2.end - d.lines2.start = 9
             /\ DOMAIN d \cap {"clusterSize", "allFiles", "patternHash"} = {}
       /\ report.duplicatedLines = 20

\* a report for two such files whose blocks stand at different lines, beside a
\* skipped file that holds the block too
C15_Witness ==
  /\ Returned
  /\ Cardinality(sharedSources) = 2
  /\ Len(files.list) = 3
  /\ shouldSkipFile(files.list[3].filename)
  /\ tenLines(1) # tenLines(2)

\* n choose 2
pairCount(n) == (n * (n - 1)) \div 2

\* C16: when n >= 3 files of different names add the same ten-line block verbatim and
\* nothing else, stage 4 emits n(n-1)/2 exact pairs, the merge leaves them as they
\* are, and the report has exactly one finding: clusterSize n, allFiles listing each
\* of the n files once with its ten lines, patternHash the hash of the shared raw code
C16_ClusterOfSharedBlock ==
  (Returned /\ Cardinality(sharedSources) >= 3) =>
    LET n == Cardinality(sharedSources)
        code == joinWith(addedContents(files.list[CHOOSE k \in sharedSources : TRUE]),
                         <<"\n">>)
    IN /\ Len(pairs) = pairCount(n)
       /\ \A q \in Range(pairs) : q.similarity = One
       /\ merged = pairs
       /\ Len(report.duplicateBlocks) = 1
       /\ LET d == report.duplicateBlocks[1]
          IN /\ "clusterSize" \in DOMAIN d
             /\ d.clusterSize = n
             /\ Len(d.allFiles) = n
             /\ {d.allFiles[k] : k \in 1..n}
                  = {[file |-> files.list[k].filename, lines |-> tenLines(k)] :
                       k \in sharedSources}
             /\ d.patternHash = hashCode(code)

\* a report for four such files
C16_Witness ==
  /\ Returned
  /\ Cardinality(sharedSources) = 4
  /\ Len(report.duplicateBlocks) = 1

\* C17: the request to the LLM is started without waiting for analyzeDuplication to
\* complete: at the step that starts reviewDiff the analysis has not yet returned,
\* so that the two overlap in time
C17_LlmStartsBeforeAnalysisReturns ==
  [][(review.llm = "notStarted" /\ review'.llm = "pending") => pc # "done"]_vars

ParsesLine == parse.pc = "loop" /\ parse'.pc = "loop" /\ parse'.k = parse.k + 1

\* a line that is no hunk header, no added line ("+" but not "+++") and no
\* deletion ("-" but not "---")
IsOtherLine(line) ==
  /\ ~startsWith(line, <<"@", "@">>)
  /\ ~(startsWith(line, <<"+">>) /\ ~startsWith(line, <<"+", "+", "+">>))
  /\ ~(startsWith(line, <<"-">>) /\ ~startsWith(line, <<"-", "-", "-">>))

\* C19: every patch line that is no hunk header, no added line and no deletion
\* advances the cursor by exactly one and emits nothing; so do the file-header
\* lines "---" and "+++"
C19_OtherLinesAdvance ==
  [][(ParsesLine /\ IsOtherLine(parse.patchLines[parse.k])) =>
       (parse'.currentLine = parse.currentLine + 1 /\ parse'.lines = parse.lines)]_vars

\* a hunk header that holds a "+N"
IsHunkHeader(line) == startsWith(line, <<"@", "@">>) /\ plusDigits(line) # 0

\* the N of such a header
headerStart(line) == parseInt(line, plusDigits(line) + 1, 0)

\* the lines of the hunks of a unified diff: a header, then context lines (" "),
\* added lines ("+"), deletions ("-") and, after one of these, the marker
\* "\ No newline at end of file"
IsWellFormed(patchLines) ==
  /\ Len(patchLines) > 0
  /\ IsHunkHeader(patchLines[1])
  /\ \A k \in 2..Len(patchLines) :
       \/ IsHunkHeader(patchLines[k])
       \/ Len(patchLines[k]) > 0 /\ patchLines[k][1] \in {" ", "+", "-"}
       \/ /\ Len(patchLines[k]) > 0
          /\ patchLines[k][1] = "\\"
          /\ ~IsHunkHeader(patchLines[k - 1])

\* the index of the header of the hunk that holds line k
hunkOf(patchLines, k) == Max({h \in 1..(k - 1) : startsWith(patchLines[h], <<"@", "@">>)})

\* the post-image line number of line k of a well-formed diff: the N of its hunk
\* plus the context and added lines of the hunk before it
postImageLine(patchLines, k) ==
  headerStart(patchLines[hunkOf(patchLines, k)])
    + Cardinality({j \in (hunkOf(patchLines, k) + 1)..(k - 1) :
                     patchLines[j][1] \in {" ", "+"}})

\* C20: a hunk header with a "+N" sets the cursor to N, one without leaves it, and
\* neither emits; in a well-formed unified diff every emitted line carries its
\* post-image line number (the N of its hunk plus the context and added lines of the
\* hunk before it, deletions not counted), and the numbers emitted within one hunk
\* increase strictly
C20_PostImageLineNumbers ==
  [][ParsesLine =>
       LET line == parse.patchLines[parse.k]
           emits == Len(parse'.lines) = Len(parse.lines) + 1
           last == parse'.lines[Len(parse'.lines)]
       IN /\ startsWith(line, <<"@", "@">>) =>
               /\ parse'.lines = parse.lines
               /\ parse'.currentLine
                    = IF IsHunkHeader(line) THEN headerStart(line) ELSE parse.currentLine
          /\ (emits /\ IsWellFormed(parse.patchLines)) =>
               /\ last.lineNumber = postImageLine(parse.patchLines, parse.k)
               /\ \A j \in (hunkOf(parse.patchLines, parse.k) + 1)..(parse.k - 1) :
                    \A e \in Range(parseLine(parse.patchLines[j], 0, <<>>).lines) :
                      Len(parse.lines) > 0
                        /\ parse.lines[Len(parse.lines)].lineNumber < last.lineNumber]_vars

RECURSIVE mergesOf(_, _, _)
\* the loop of mergeWalk: `current` and `next` at every iteration that merges
mergesOf(sorted, k, current) ==
  IF k > Len(sorted) THEN <<>>
  ELSE LET next == sorted[k]
       IN IF overlap1(current, next) /\ overlap2(current, next)
            THEN <<[current |-> current, next |-> next]>>
                   \o mergesOf(sorted, k + 1, mergeInto(current, next))
            ELSE mergesOf(sorted, k + 1, next)

RECURSIVE groupMerges(_, _, _)
groupMerges(dups, keys, k) ==
  IF k > Len(keys) THEN <<>>
  ELSE LET sorted == sortByStart1(groupOf(dups, keys[k], 1))
       IN mergesOf(sorted, 2, sorted[1]) \o groupMerges(dups, keys, k + 1)

\* the merges mergeOverlappingDuplicates made of the stage-4 pairs
merges == groupMerges(pairs, groupKeys(pairs, 1), 1)

\* the number of lines that lie between two ranges, 0 when they overlap or abut
gapBetween(r, s) ==
  IF r.start > s.end THEN r.start - s.end - 1
  ELSE IF s.start > r.end THEN s.start - r.end - 1
  ELSE 0

\* C21: the merger merges `next` into `current` only when on both sides the ranges
\* overlap or have at most one line between them, whichever of the two lies first
C21_MergesOnlyNearRanges ==
  \A e \in Range(merges) :
    /\ gapBetween(e.next.lines1, e.current.lines1) <= 1
    /\ gapBetween(e.next.lines2, e.current.lines2) <= 1

\* the indices of the post-merge records that absorbed the pair q
absorbers(q) == {k \in 1..Len(mergedRuns) : q \in Range(mergedRuns[k].sources)}

contains(outer, inner) == outer.start <= inner.start /\ inner.end <= outer.end

\* C22: the merged records are those of the runs of pairs the merger absorbed; every
\* stage-4 pair is absorbed into exactly one of them, which is of the same unordered
\* file pair, has the file1 and the file2 of the pair, contains the lines1 and the
\* lines2 of the pair and has at least its similarity, the greatest of the run; and
\* the merger does not add to the number of records
C22_MergerCoversEveryPair ==
  pc \in {"cluster", "sort", "metrics", "done"} =>
    /\ merged = [k \in 1..Len(mergedRuns) |-> mergedRuns[k].record]
    /\ Len(merged) <= Len(pairs)
    /\ \A q \in Range(pairs) :
         /\ Cardinality(absorbers(q)) = 1
         /\ \A k \in absorbers(q) :
              /\ groupKey(merged[k]) = groupKey(q)
              /\ merged[k].file1 = q.file1
              /\ merged[k].file2 = q.file2
              /\ contains(merged[k].lines1, q.lines1)
              /\ contains(merged[k].lines2, q.lines2)
              /\ RatioGE(merged[k].similarity, q.similarity)
    /\ \A k \in 1..Len(merged) :
         \E q \in Range(mergedRuns[k].sources) : q.similarity = merged[k].similarity

\* for every post-merge record, by index, the records whose raw code has a Jaccard
\* similarity of at least 0.90 with its raw code
similarRecords ==
  [i \in 1..Len(merged) |->
     {j \in 1..Len(merged) :
        RatioGE(calculateSimilarity(merged[i].code, merged[j].code),
                CLUSTER_SIMILARITY_THRESHOLD)}]

RECURSIVE chainFrom(_, _)
\* the records a chain of similar records leads to from the records of S
chainFrom(similar, S) ==
  LET T == S \cup UNION {similar[i] : i \in S}
  IN IF T = S THEN S ELSE chainFrom(similar, T)

\* clusterDuplicatesByPattern has found the root of every record
RootsFound == uf.pc = "done" /\ Len(merged) > 0

\* C23: once the unions are made, two post-merge records have the same root exactly
\* when a chain of records leads from one to the other in which each is similar (raw
\* code, Jaccard >= 0.90) to the next, whether or not the two are similar themselves;
\* every record has one root, so it is in exactly one cluster
C23_ClustersAreComponents ==
  RootsFound =>
    /\ Len(uf.roots) = Len(merged)
    /\ \A similar \in {similarRecords} :
         \A i \in 1..Len(merged) :
           \A component \in {chainFrom(similar, {i})} :
             \A j \in 1..Len(merged) :
               (uf.roots[i] = uf.roots[j]) <=> (j \in component)
    /\ \A clusters \in {clustersFrom(merged, uf.roots)} :
         /\ \A i \in 1..Len(merged) :
              \E c \in 1..Len(clusters) : merged[i] \in Range(clusters[c])
         /\ \A c, d \in 1..Len(clusters) :
              c # d => Range(clusters[c]) \cap Range(clusters[d]) = {}

\* three records in one cluster of which the first is similar to the second and the
\* second to the third, but not the first to the third
C23_Witness ==
  /\ RootsFound
  /\ pc = "done"
  /\ \E similar \in {similarRecords} :
        \E i, j, k \in 1..Len(merged) :
          /\ j \in similar[i]
          /\ k \in similar[j]
          /\ k \notin similar[i]
          /\ uf.roots[i] = uf.roots[k]

\* the connected components of the post-merge records, as sets of indices
components ==
  UNION {{chainFrom(similar, {i}) : i \in 1..Len(merged)} : similar \in {similarRecords}}

\* the index, in a component, of the record of the highest similarity, the first of
\* them if there are several
bestOf(K) ==
  CHOOSE i \in K :
    \A j \in K : \/ RatioLT(merged[j].similarity, merged[i].similarity)
                 \/ (merged[j].similarity = merged[i].similarity /\ i <= j)

\* the six fields of a record that a finding of a cluster takes from a record
pairFields(d) ==
  [file1 |-> d.file1, file2 |-> d.file2, lines1 |-> d.lines1, lines2 |-> d.lines2,
   code |-> d.code, similarity |-> d.similarity]

\* C24: the clusterer emits one finding for every connected component, in the order
\* of the first records of the components: for a component of one record that record
\* as it is, without clusterSize, allFiles and patternHash, and for a larger one a
\* finding with these three fields whose file1, file2, lines1, lines2, code and
\* similarity are those of the record of the highest similarity in the component,
\* the first such record in index order
C24_OneFindingPerComponent ==
  (RootsFound /\ pc \in {"sort", "metrics", "done"}) =>
    \A comps \in {components} :
      /\ Len(clustered) = Cardinality(comps)
      /\ \A K \in comps :
           \A c \in {Cardinality({L \in comps : Min(L) <= Min(K)})} :
             IF Cardinality(K) = 1
               THEN clustered[c] = merged[Min(K)]
                      /\ DOMAIN clustered[c] \cap {"clusterSize", "allFiles", "patternHash"} = {}
               ELSE /\ {"clusterSize", "allFiles", "patternHash"} \subseteq DOMAIN clustered[c]
                    /\ pairFields(clustered[c]) = pairFields(merged[bestOf(K)])

\* findings emitted for a component of one record and for a component whose record
\* of the highest similarity is not its first
C24_Witness ==
  /\ RootsFound
  /\ pc = "done"
  /\ \E comps \in {components} :
       /\ \E K \in comps : Cardinality(K) = 1
       /\ \E K \in comps : Cardinality(K) > 1 /\ bestOf(K) # Min(K)

\* the ranges the records of a cluster contribute for a file
contributed(cluster, file) ==
  {cluster[k].lines1 : k \in {k \in 1..Len(cluster) : cluster[k].file1 = file}}
    \cup {cluster[k].lines2 : k \in {k \in 1..Len(cluster) : cluster[k].file2 = file}}

\* the range from the least start to the greatest end of the ranges of S
hull(S) ==
  [start |-> Min({r.start : r \in S}), end |-> Max({r.end : r \in S})]

\* C25: in every clustered finding, the lines1 of every record of its cluster lie
\* within an entry of allFiles for the record's file1 and its lines2 within an entry
\* for its file2, and every entry of allFiles is the hull of ranges that the records
\* of the cluster contribute for the file of the entry
C25_AllFilesCoversCluster ==
  Returned =>
    \A c \in 1..Len(clustered) :
      "allFiles" \in DOMAIN clustered[c] =>
        \A cluster \in {clustersOf(merged)[c]} :
          /\ \A r \in Range(cluster) :
               /\ \E e \in Range(clustered[c].allFiles) :
                    e.file = r.file1 /\ contains(e.lines, r.lines1)
               /\ \E e \in Range(clustered[c].allFiles) :
                    e.file = r.file2 /\ contains(e.lines, r.lines2)
          /\ \A e \in Range(clustered[c].allFiles) :
               \E S \in SUBSET contributed(cluster, e.file) :
                 S # {} /\ e.lines = hull(S)

\* a clustered finding with an entry of allFiles that is the hull of two different
\* ranges and is neither of them
C25_Witness ==
  /\ Returned
  /\ \E c \in 1..Len(clustered) :
       /\ "allFiles" \in DOMAIN clustered[c]
       /\ \E e \in Range(clustered[c].allFiles) :
            /\ e.lines \notin contributed(clustersOf(merged)[c], e.file)
            /\ \E S \in SUBSET contributed(clustersOf(merged)[c], e.file) :
                 S # {} /\ e.lines = hull(S)

\* the lines of a file on a side of a finding of the report
reportedLines(file) ==
  {i \in 0..Max({0} \cup {d.lines1.end : d \in Range(report.duplicateBlocks)}
                    \cup {d.lines2.end : d \in Range(report.duplicateBlocks)}) :
     \E d \in Range(report.duplicateBlocks) :
       \/ file = d.file1 /\ d.lines1.start <= i /\ i <= d.lines1.end
       \/ file = d.file2 /\ d.lines2.start <= i /\ i <= d.lines2.end}

\* the locations (file, line) on a side of a finding of the report
reportedLocations ==
  UNION {{<<file, i>> : i \in reportedLines(file)} :
           file \in {d.file1 : d \in Range(report.duplicateBlocks)}
                      \cup {d.file2 : d \in Range(report.duplicateBlocks)}}

\* the locations the entries of allFiles of the findings list
allFilesLocations ==
  UNION {UNION {{<<d.allFiles[e].file, i>> :
                   i \in d.allFiles[e].lines.start..d.allFiles[e].lines.end}
                : e \in 1..Len(d.allFiles)}
         : d \in ClusteredFindings}

\* C26: duplicatedLines is the number of different locations (file, line) on the two
\* sides lines1 and lines2 of the findings of the report; the locations that only
\* allFiles lists are not counted, so that it is 20, not 10 n, when n >= 3 files add
\* one identical block of ten lines
C26_DuplicatedLinesOfTwoSides ==
  Returned =>
    /\ report.duplicatedLines = Cardinality(reportedLocations)
    /\ Cardinality(sharedSources) >= 3 =>
         /\ report.duplicatedLines = 20
         /\ Cardinality(allFilesLocations) = 10 * Cardinality(sharedSources)

\* a report for four files that add one identical block, and so with locations that
\* only allFiles lists
C26_Witness ==
  /\ Returned
  /\ Cardinality(sharedSources) = 4
  /\ ~(allFilesLocations \subseteq reportedLocations)

RECURSIVE rootFrom(_, _, _)
\* the index that at most n parent pointers lead to from x: the walk ends at an index
\* that is its own parent
rootFrom(parent, x, n) ==
  IF parent[x] = x \/ n = 0 THEN x ELSE rootFrom(parent, parent[x], n - 1)

\* a walk that visits no index twice follows fewer pointers than there are indices
rootIn(parent, x) == rootFrom(parent, x, Len(parent))

\* every entry is an index, and the parent pointers from every index lead to an index
\* that is its own parent: no cycle but the self-loops of the roots
IsForest(parent) ==
  \A x \in 1..Len(parent) :
    /\ parent[x] \in 1..Len(parent)
    /\ \A r \in {rootIn(parent, x)} : parent[r] = r

\* the pairs of indices that share a root
sameRoot(parent) ==
  LET root == [x \in 1..Len(parent) |-> rootIn(parent, x)]
  IN {p \in (1..Len(parent)) \X (1..Len(parent)) : root[p[1]] = root[p[2]]}

\* the parent array exists: clusterDuplicatesByPattern is past its line 318
Clustering == uf.pc \in {"loop", "find", "unwind", "link", "collect"}

\* a step inside find: a recursive call, the root reached, an assignment of
\* parent[x], the return
InFind == uf.pc \in {"find", "unwind"}

RECURSIVE depthOf(_, _, _)
\* the number of parent pointers from x to its root
depthOf(parent, x, n) ==
  IF parent[x] = x \/ n = 0 THEN 0 ELSE 1 + depthOf(parent, parent[x], n - 1)

\* the iterations (i', j') of the nested loops from (i, j) on
iterationsFrom(i, j, n) ==
  Cardinality({p \in (1..n) \X (1..n) :
                 /\ p[1] < p[2]
                 /\ p[1] > i \/ (p[1] = i /\ p[2] >= j)})

\* what is left of a call of find: the recursive calls down to the root, then the
\* assignments of the calls that return
findRank ==
  IF uf.pc = "find"
    THEN 2 * depthOf(uf.parent, uf.cur, Len(uf.parent)) + Len(uf.stack) + 2
  ELSE IF uf.pc = "unwind" THEN Len(uf.stack) + 1
  ELSE 0

\* what is left of analyzeDuplication, most significant first: its stages, the loops
\* of clusterDuplicatesByPattern, the iterations of the loop, the statements of the
\* iteration, the call of find
rank ==
  LET stages == CASE pc = "extract" -> 5
                  [] pc = "find" -> 4
                  [] pc = "cluster" -> 3
                  [] pc = "sort" -> 2
                  [] pc = "metrics" -> 1
                  [] OTHER -> 0
      inUnion == uf.pc = "loop" \/ uf.pc = "link" \/ (InFind /\ uf.caller # "collect")
      inCollect == uf.pc = "collect" \/ (InFind /\ uf.caller = "collect")
  IN IF pc # "cluster" THEN <<stages, 0, 0, 0, 0>>
     ELSE IF uf.pc = "start" THEN <<stages, 3, 0, 0, 0>>
     ELSE IF inUnion
       THEN <<stages, 2, iterationsFrom(uf.i, uf.j, Len(merged)),
              CASE uf.pc = "loop" -> 4
                [] uf.pc = "link" -> 1
                [] uf.caller = "x" -> 3
                [] OTHER -> 2,
              findRank>>
     ELSE IF inCollect
       THEN <<stages, 1, Len(merged) + 1 - uf.k, IF uf.pc = "collect" THEN 2 ELSE 1,
              findRank>>
     ELSE <<stages, 0, 0, 0, 0>>

RECURSIVE lexLess(_, _, _)
\* a is before b in the lexicographic order, from the k-th component on
lexLess(a, b, k) ==
  /\ k <= Len(a)
  /\ a[k] < b[k] \/ (a[k] = b[k] /\ lexLess(a, b, k + 1))

\* a statement of analyzeDuplication can be executed
CanStep ==
  \/ pc \in {"extract", "find", "sort", "metrics"}
  \/ /\ pc = "cluster"
     /\ uf.pc \in {"start", "loop", "link", "collect", "unwind"}
  \/ /\ pc = "cluster"
     /\ uf.pc = "find"
     /\ uf.cur \in DOMAIN uf.parent

\* C27: while clusterDuplicatesByPattern runs the parent array is a forest and no
\* step of find changes which indices share a root; every call of find, the loops of
\* the clustering and analyzeDuplication end: every step takes what is left of the run
\* down in a well-founded order, and before the return a step can always be taken
C27_ForestAndTermination ==
  /\ [](Clustering => IsForest(uf.parent))
  /\ [][InFind => sameRoot(uf'.parent) = sameRoot(uf.parent)]_vars
  /\ [][lexLess(rank', rank, 1)]_vars
  /\ [](Returned \/ CanStep)

\* find has reached the root over two parent pointers and is about to assign it to
\* an index whose parent is another index
C27_Witness ==
  /\ uf.pc = "unwind"
  /\ Len(uf.stack) >= 2
  /\ uf.parent[uf.stack[1]] # uf.root

\* the places of the input list that hold a file of the name
positionsOf(name) ==
  {i \in 1..Len(files.list) : files.list[i].defined /\ files.list[i].filename = name}

\* no two files of the input list have the same name
DistinctFilenames ==
  /\ files.defined
  /\ \A i, j \in 1..Len(files.list) :
       (i # j /\ files.list[i].defined /\ files.list[j].defined)
         => files.list[i].filename # files.list[j].filename

\* C28: when the names of the input files are pairwise different, the file1 of every
\* stage-4 pair lies before its file2 in the input list, the pairs of one merger group
\* all have the same file1 and the same file2, and the merger merges no record into
\* one whose lines1 is of another file
C28_OrientationConsistent ==
  DistinctFilenames =>
    /\ \A q \in Range(pairs) :
         /\ positionsOf(q.file1) # {}
         /\ positionsOf(q.file2) # {}
         /\ \A i \in positionsOf(q.file1) : \A j \in positionsOf(q.file2) : i < j
    /\ \A q, r \in Range(pairs) :
         groupKey(q) = groupKey(r) => (q.file1 = r.file1 /\ q.file2 = r.file2)
    /\ \A e \in Range(merges) :
         /\ e.current.file1 = e.next.file1
         /\ e.current.file2 = e.next.file2

\* files of different names whose pairs the merger has merged, and a third file
\* between the two files of a pair
C28_Witness ==
  /\ DistinctFilenames
  /\ Len(merges) > 0
  /\ Len(merged) > 0
  /\ \E q \in Range(pairs) :
       \E i \in positionsOf(q.file1) : \E j \in positionsOf(q.file2) : j > i + 1

====
